---------------------------- MODULE Spec2Model ----------------------------
(*************************************************************************)
(* The Action Governor of scripts/llm_player.py: play_turn's pipeline    *)
(* (observe, propose, fallback, inject, normalize, admit, act, memory    *)
(* update) and run_session's turn loop, as a state machine; and the      *)
(* ConversationManager (window, summary, message list).                  *)
(*                                                                       *)
(* Conventions.  A grid coordinate is a pair <<x, y>>; an absent         *)
(* coordinate key is NoPt.  Money is in whole dollars, coverage and tax  *)
(* rates in whole percent (0.8 is 80, TAX_FLOOR 0.08 is 8).  An action   *)
(* {kind: params} is a record carrying the kind and every parameter key  *)
(* the code reads; an absent string key is NoStr.                        *)
(*************************************************************************)
EXTENDS Integers, Sequences, FiniteSets, TLC

VARIABLES
    turn,                  \* run_session: loop variable `turn`
    pc,                    \* position inside run_session / play_turn
    observation,           \* play_turn: `observation` of the current turn
    water_cells,           \* _water_cells
    placed_positions,      \* _placed_positions
    last_tax_rates,        \* _last_tax_rates
    road_cells,            \* _road_cells
    next_road_y,           \* _next_road_y[0]
    water_tower_positions, \* _water_tower_positions
    prev_treasury,         \* _prev_treasury[0]
    last_treasury_delta,   \* _last_treasury_delta[0]
    fallback,              \* play_turn: what _generate_fallback_actions returned
    injected,              \* play_turn: what _inject_critical_utilities returned
    raw_actions,           \* play_turn: `raw_actions` (normalized candidates)
    idx,                   \* admission loop: index of the next candidate
    verdicts,              \* admission loop: the SKIP reason logged per candidate
    actions,               \* play_turn: `actions` (the admitted list)
    utility_count,         \* admission loop local
    zone_count,            \* admission loop local
    service_type_counts,   \* admission loop local
    spent_estimate,        \* admission loop local
    sent,                  \* act requests written to the backend this turn
    results,               \* play_turn: `results` (one result value per act)
    recent_turns,          \* ConversationManager.recent_turns
    history_summary,       \* ConversationManager.history_summary, as its blocks
    turn_log,              \* ConversationManager.turn_log
    messages,              \* what build_messages returned last
    attempt,               \* LLMClient._call_api: failed attempts of the running call
    slept,                 \* LLMClient._call_api: the delays slept in the running call
    response,              \* play_turn: `response`, the proposer's reply text
    parsed,                \* play_turn: `parsed`, what parse_response returned
    wire,                  \* requests written to the game's stdin since the turn
                           \* began (since the loop ended, once it has)
    link,                  \* the game's pipes: "up", or "down" once a send has failed
    llm_errors,            \* SessionStats.llm_errors
    turns_played,          \* SessionStats.turns_played
    session_log            \* the turns of the records appended to the session log

vars == <<turn, pc, observation, water_cells, placed_positions, last_tax_rates,
          road_cells, next_road_y, water_tower_positions, prev_treasury,
          last_treasury_delta, fallback, injected, raw_actions, idx, verdicts,
          actions, utility_count, zone_count, service_type_counts,
          spent_estimate, sent, results, recent_turns, history_summary,
          turn_log, messages, attempt, slept, response, parsed, wire, link,
          llm_errors,
          turns_played, session_log>>

conv == <<recent_turns, history_summary, turn_log, messages>>

reply == <<response, parsed>>

call == <<attempt, slept, response, parsed>>

stats == <<llm_errors, turns_played, session_log>>

memory == <<water_cells, placed_positions, last_tax_rates, road_cells,
            next_road_y, water_tower_positions>>

-----------------------------------------------------------------------------
(* Program constants *)

GridSize == 256
TAX_FLOOR == 8
DefaultRate == 9
MAX_UTILITIES_PER_TURN == 4
MAX_PER_SERVICE_TYPE == 2
DefaultMaxZones == 6
ThrottledMaxZones == 2
ModerateMaxZones == 3
SafetyFloor == 500
WaterTowerFloor == 200
PowerPlantFloor == 1200
InitialTreasury == 50000
InitialRoadY == 95
RoadYLimit == 200
OverviewScale == 4
WaterMargin == 2
BankruptcyFloor == 100000

-----------------------------------------------------------------------------
(* Actions as data *)

NoPt == <<>>
NoStr == "<absent>"
NoRates == [k \in {} |-> 0]
NoCounts == [k \in {} |-> 0]
TaxKeys == {"residential", "commercial", "industrial", "office"}
CoordKeys == {"start", "end", "pos", "min", "max"}

Blank ==
    [kind |-> "", start |-> NoPt, end |-> NoPt, pos |-> NoPt, min |-> NoPt,
     max |-> NoPt, zone_type |-> NoStr, road_type |-> NoStr,
     utility_type |-> NoStr, service_type |-> NoStr, rates |-> NoRates,
     half |-> {}]

RoadLine(s, e, rt) ==
    [Blank EXCEPT !.kind = "PlaceRoadLine", !.start = s, !.end = e, !.road_type = rt]
ZoneRect(mn, mx, zt) ==
    [Blank EXCEPT !.kind = "ZoneRect", !.min = mn, !.max = mx, !.zone_type = zt]
BulldozeRect(mn, mx) ==
    [Blank EXCEPT !.kind = "BulldozeRect", !.min = mn, !.max = mx]
PlaceUtility(p, ut) ==
    [Blank EXCEPT !.kind = "PlaceUtility", !.pos = p, !.utility_type = ut]
PlaceService(p, st) ==
    [Blank EXCEPT !.kind = "PlaceService", !.pos = p, !.service_type = st]
SetTaxRates(r) ==
    [Blank EXCEPT !.kind = "SetTaxRates", !.rates = r]
AllRates(v) == [k \in TaxKeys |-> v]

Min2(a, b) == IF a < b THEN a ELSE b
Max2(a, b) == IF a > b THEN a ELSE b
Abs(n) == IF n < 0 THEN -n ELSE n

-----------------------------------------------------------------------------
(* Coordinates of an action, water and bounds (lines 383-430) *)

LineCells(s, e) ==
    IF s[1] = e[1]
    THEN {<<s[1], y>> : y \in Min2(s[2], e[2]) .. Max2(s[2], e[2])}
    ELSE IF s[2] = e[2]
    THEN {<<x, s[2]>> : x \in Min2(s[1], e[1]) .. Max2(s[1], e[1])}
    ELSE {}

ActionCoordsEndpointsOnly(a) ==
    {a[k] : k \in {ck \in CoordKeys : a[ck] # NoPt}}

ActionCoords(a) ==
    {a[k] : k \in {ck \in CoordKeys : a[ck] # NoPt}}
    \cup (IF a.start # NoPt /\ a.end # NoPt THEN LineCells(a.start, a.end) ELSE {})

ActionHitsWater(a, water) ==
    IF water = {} THEN FALSE ELSE ActionCoords(a) \cap water # {}

ActionOutOfBoundsOffByOne(a) ==
    \E c \in ActionCoords(a) :
        c[1] < 0 \/ c[1] > GridSize \/ c[2] < 0 \/ c[2] > GridSize

ActionOutOfBounds(a) ==
    \E c \in ActionCoords(a) :
        c[1] < 0 \/ c[1] >= GridSize \/ c[2] < 0 \/ c[2] >= GridSize

\* The patch around a blocked coordinate with a margin of 1 instead of 2.
DilateByOne(c) == {<<c[1] + dx, c[2] + dy>> : dx \in -1 .. 1, dy \in -1 .. 1}

Dilate(c) ==
    {<<c[1] + dx, c[2] + dy>> : dx \in -WaterMargin .. WaterMargin,
                                dy \in -WaterMargin .. WaterMargin}

\* _record_water_failure that starts from an empty set instead of adding to the set.
RecordWaterFailureReplacing(a, water) ==
    ActionCoords(a) \cup UNION {Dilate(c) : c \in ActionCoords(a)}

RecordWaterFailure(a, water) ==
    water \cup ActionCoords(a) \cup UNION {Dilate(c) : c \in ActionCoords(a)}

\* `ov` is the set of overview cells <<ox, oy>> drawn as '~'.
BuildWaterSet(ov) ==
    UNION {{<<c[1] * OverviewScale + dx, c[2] * OverviewScale + dy>> :
                dx \in 0 .. OverviewScale - 1, dy \in 0 .. OverviewScale - 1} :
           c \in ov}

-----------------------------------------------------------------------------
(* normalize_action (lines 709-785) *)

\* A zone alias table whose value for "ResLow" is itself an alias key.
ZoneTypeAliasChained(zt) ==
    CASE zt \in {"IndustrialLow", "IndustrialHigh"} -> "Industrial"
      [] zt \in {"OfficeLow", "OfficeHigh"} -> "Office"
      [] zt = "ResLow" -> "Residential"
      [] zt = "Residential" -> "ResidentialLow"
      [] zt = "ResHigh" -> "ResidentialHigh"
      [] zt \in {"ComLow", "Commercial"} -> "CommercialLow"
      [] zt = "ComHigh" -> "CommercialHigh"
      [] OTHER -> zt

ZoneTypeAlias(zt) ==
    CASE zt \in {"IndustrialLow", "IndustrialHigh"} -> "Industrial"
      [] zt \in {"OfficeLow", "OfficeHigh"} -> "Office"
      [] zt \in {"ResLow", "Residential"} -> "ResidentialLow"
      [] zt = "ResHigh" -> "ResidentialHigh"
      [] zt \in {"ComLow", "Commercial"} -> "CommercialLow"
      [] zt = "ComHigh" -> "CommercialHigh"
      [] OTHER -> zt

\* Road types are given already lower-cased (rt = params["road_type"].lower()).
RoadTypeMap(rt) ==
    CASE rt \in {"local", "collector", "residential"} -> "Local"
      [] rt \in {"avenue", "main", "arterial"} -> "Avenue"
      [] rt = "boulevard" -> "Boulevard"
      [] rt = "highway" -> "Highway"
      [] OTHER -> "Local"

Lower(rt) ==
    CASE rt = "Local" -> "local"
      [] rt \in {"Avenue", "AVENUE"} -> "avenue"
      [] rt = "Main" -> "main"
      [] rt = "Boulevard" -> "boulevard"
      [] rt = "Highway" -> "highway"
      [] OTHER -> rt

\* int(round(v)).  A component is the integer n, or n + 1/2 when the action's
\* field half names it (<<key, i>> for component i of the coordinate key);
\* Python's round takes a half to the even neighbour.
RoundHalfEven(n, is_half) ==
    IF is_half THEN (IF n % 2 = 0 THEN n ELSE n + 1) ELSE n

RoundCoord(a, key, p) ==
    [i \in DOMAIN p |-> RoundHalfEven(p[i], <<key, i>> \in a.half)]

ServiceTypesAsUtility ==
    {"WaterTreatmentPlant", "Landfill", "RecyclingCenter", "Incinerator",
     "Cemetery", "Crematorium", "SmallPark", "LargePark", "Library"}

ClampZone(a) ==
    IF a.kind = "ZoneRect" /\ a.min # NoPt /\ a.max # NoPt
    THEN LET mn == a.min
             mx == a.max
             dx == mx[1] - mn[1]
             dy == mx[2] - mn[2]
         IN [a EXCEPT
               !.max = <<IF dx > 20 THEN mn[1] + 20 ELSE mx[1],
                         IF dy > 3 THEN mn[2] + 3 ELSE mx[2]>>,
               !.min = <<IF dx < -20 THEN mx[1] + 20 ELSE mn[1],
                         IF dy < -3 THEN mx[2] + 3 ELSE mn[2]>>]
    ELSE a

TaxFloorNone(a) == a

TaxFloor(a) ==
    IF a.kind = "SetTaxRates"
    THEN [a EXCEPT !.rates = [k \in DOMAIN a.rates |->
                                IF a.rates[k] < TAX_FLOOR THEN TAX_FLOOR
                                ELSE a.rates[k]]]
    ELSE a

Reclassify(a) ==
    IF a.kind = "PlaceUtility" /\ a.utility_type \in ServiceTypesAsUtility
    THEN PlaceService(a.pos, a.utility_type)
    ELSE a

NormalizeAction(a) ==
    LET a1 == [a EXCEPT
                 !.zone_type = IF @ = NoStr THEN @ ELSE ZoneTypeAlias(@),
                 !.road_type = IF @ = NoStr THEN @ ELSE RoadTypeMap(Lower(@)),
                 !.start = IF @ = NoPt THEN @ ELSE RoundCoord(a, "start", @),
                 !.end = IF @ = NoPt THEN @ ELSE RoundCoord(a, "end", @),
                 !.pos = IF @ = NoPt THEN @ ELSE RoundCoord(a, "pos", @),
                 !.min = IF @ = NoPt THEN @ ELSE RoundCoord(a, "min", @),
                 !.max = IF @ = NoPt THEN @ ELSE RoundCoord(a, "max", @),
                 !.half = {}]
    IN Reclassify(TaxFloor(ClampZone(a1)))

NormalizeAll(s) == [i \in DOMAIN s |-> NormalizeAction(s[i])]

-----------------------------------------------------------------------------
(* The admission loop of play_turn (lines 968-1054) *)

ActionCostCheapUtility(kind) ==
    CASE kind = "PlaceRoadLine" -> 200
      [] kind = "ZoneRect" -> 0
      [] kind = "PlaceUtility" -> 200
      [] kind = "PlaceService" -> 1000
      [] kind = "BulldozeRect" -> 0
      [] kind = "SetTaxRates" -> 0
      [] OTHER -> 500

ActionCost(kind) ==
    CASE kind = "PlaceRoadLine" -> 200
      [] kind = "ZoneRect" -> 0
      [] kind = "PlaceUtility" -> 600
      [] kind = "PlaceService" -> 1000
      [] kind = "BulldozeRect" -> 0
      [] kind = "SetTaxRates" -> 0
      [] OTHER -> 500

MaxZonesPerTurnNoModerate(treas_delta, treasury) ==
    IF treas_delta < -3000 /\ treasury < 50000 THEN ThrottledMaxZones
    ELSE DefaultMaxZones

MaxZonesPerTurn(treas_delta, treasury) ==
    IF treas_delta < -3000 /\ treasury < 50000 THEN ThrottledMaxZones
    ELSE IF treas_delta < -5000 THEN ModerateMaxZones
    ELSE DefaultMaxZones

\* rates = {k: params.get(k, 0.09) for k in the four tax keys}
RatesOf(a) ==
    [k \in TaxKeys |-> IF k \in DOMAIN a.rates THEN a.rates[k] ELSE DefaultRate]

CountOf(counts, k) == IF k \in DOMAIN counts THEN counts[k] ELSE 0

Bump(counts, k) ==
    [t \in DOMAIN counts \cup {k} |-> IF t = k THEN CountOf(counts, k) + 1
                                      ELSE counts[t]]

\* params.get("utility_type", "") and params.get("service_type", "")
TypeOrEmpty(t) == IF t = NoStr THEN "" ELSE t

SameTaxes(a, last_tax) == a.kind = "SetTaxRates" /\ RatesOf(a) = last_tax

Occupied(a, placed) ==
    a.kind \in {"PlaceUtility", "PlaceService"} /\ a.pos # NoPt /\ a.pos \in placed

OverUtilityCapOffByOne(count) == count > MAX_UTILITIES_PER_TURN + 1
OverUtilityCap(count) == count > MAX_UTILITIES_PER_TURN

OverServiceCap(count) == count > MAX_PER_SERVICE_TYPE

OverZoneCap(count, max_zones) == count > max_zones

OverBudgetIgnoringSpent(cost, treasury, spent) == cost > 0 /\ treasury < cost
OverBudget(cost, treasury, spent) == cost > 0 /\ (treasury - spent) < cost

\* One iteration of `for a in raw_actions`: the verdict and the loop locals after it.
\* `st` holds utility_count, zone_count, service_type_counts and spent_estimate.
Consider(a, st, treasury, max_zones, water, placed, last_tax) ==
    LET isUtil == a.kind = "PlaceUtility" /\ TypeOrEmpty(a.utility_type) # "WaterTower"
        isSvc == a.kind = "PlaceService"
        isZone == a.kind = "ZoneRect"
        uc == IF isUtil THEN st.utility_count + 1 ELSE st.utility_count
        sc == IF isSvc THEN Bump(st.service_type_counts, TypeOrEmpty(a.service_type))
              ELSE st.service_type_counts
        zc == IF isZone THEN st.zone_count + 1 ELSE st.zone_count
        cost == ActionCost(a.kind)
        counted == [st EXCEPT !.utility_count = uc, !.zone_count = zc,
                              !.service_type_counts = sc]
    IN  IF ActionOutOfBounds(a) THEN [verdict |-> "bounds", st |-> st]
        ELSE IF ActionHitsWater(a, water) THEN [verdict |-> "water", st |-> st]
        ELSE IF SameTaxes(a, last_tax) THEN [verdict |-> "same taxes", st |-> st]
        ELSE IF Occupied(a, placed) THEN [verdict |-> "occupied", st |-> st]
        ELSE IF isUtil /\ OverUtilityCap(uc) THEN [verdict |-> "utility cap", st |-> counted]
        ELSE IF isSvc /\ OverServiceCap(sc[TypeOrEmpty(a.service_type)])
             THEN [verdict |-> "service cap", st |-> counted]
        ELSE IF isZone /\ OverZoneCap(zc, max_zones)
             THEN [verdict |-> "zone cap", st |-> counted]
        ELSE IF OverBudget(cost, treasury, st.spent_estimate)
             THEN [verdict |-> "budget", st |-> counted]
        ELSE [verdict |-> "admit",
              st |-> [counted EXCEPT !.spent_estimate = st.spent_estimate + cost]]

-----------------------------------------------------------------------------
(* _pick_furthest_from, _inject_critical_utilities, _generate_fallback_actions *)

Manhattan(p, q) == Abs(p[1] - q[1]) + Abs(p[2] - q[2])

SetMin(S) == CHOOSE m \in S : \A n \in S : m <= n

MinDist(pos, positions) == SetMin({Manhattan(pos, ref) : ref \in positions})

\* The candidates _pick_furthest_from can return.  `candidates` is list(set), whose
\* order is not specified: with no reference position it returns the element in the
\* middle of that order, otherwise the first element of that order reaching the
\* largest minimum distance; either way any such element, depending on the order.
PickFurthestFrom(positions, candidates) ==
    IF positions = {} THEN candidates
    ELSE {c \in candidates :
            \A d \in candidates : MinDist(d, positions) <= MinDist(c, positions)}

\* sorted(...)[0] of a set of pairs: the least pair in lexicographic order.
LexLeast(S) ==
    CHOOSE m \in S : \A n \in S : m[1] < n[1] \/ (m[1] = n[1] /\ m[2] <= n[2])

Range(s) == {s[i] : i \in DOMAIN s}

\* What _generate_fallback_actions returns and the value it leaves in _next_road_y[0].
GenerateFallbackActions(obs, road, placed, water, y) ==
    LET avail0 == road \ placed
        wt == obs.water_coverage < 80 /\ avail0 # {} /\ obs.treasury >= WaterTowerFloor
        a1 == IF wt THEN <<PlaceUtility(LexLeast(avail0), "WaterTower")>> ELSE <<>>
        avail1 == IF wt THEN avail0 \ {LexLeast(avail0)} ELSE avail0
        pp == obs.power_coverage < 80 /\ avail1 # {} /\ obs.treasury >= PowerPlantFloor
        a2 == IF pp THEN Append(a1, PlaceUtility(LexLeast(avail1), "PowerPlant")) ELSE a1
        probe == [Blank EXCEPT !.kind = "PlaceRoadLine",
                               !.start = <<100, y>>, !.end = <<120, y>>]
        ext == obs.treasury >= SafetyFloor /\ Len(a2) < 3 /\ y < RoadYLimit
               /\ ~ActionHitsWater(probe, water)
    IN  IF obs.treasury < SafetyFloor THEN [acts |-> <<>>, next_y |-> y]
        ELSE IF ext
        THEN [acts |-> a2 \o <<RoadLine(<<100, y>>, <<120, y>>, "Local"),
                               ZoneRect(<<100, y + 1>>, <<120, y + 1>>, "ResidentialLow"),
                               ZoneRect(<<100, y - 1>>, <<120, y - 1>>, "Industrial")>>,
              next_y |-> y + 3]
        ELSE [acts |-> a2, next_y |-> y]

\* available_road with nothing removed after a pick
RemainingAll(avail, picked) == avail

\* available_road.remove(pos) after each pick
Remaining(avail, picked) == avail \ {picked[i].pos : i \in DOMAIN picked}

\* The lists _inject_critical_utilities can return (one per order of list(set)).
InjectCriticalUtilities(obs, llm_actions, road, placed, towers) ==
    LET types == {TypeOrEmpty(llm_actions[i].utility_type) :
                    i \in {j \in DOMAIN llm_actions : llm_actions[j].kind = "PlaceUtility"}}
        avail == road \ placed
        count == IF obs.water_coverage < 50 THEN 2 ELSE 1
        n == IF obs.water_coverage < 80 /\ obs.treasury >= WaterTowerFloor
             THEN Min2(count, Cardinality(avail)) ELSE 0
        tower(p) == PlaceUtility(p, "WaterTower")
        ws == IF n = 0 THEN {<<>>}
              ELSE IF n = 1 THEN {<<tower(p)>> : p \in PickFurthestFrom(towers, avail)}
              ELSE UNION {{<<tower(p), tower(q)>> :
                              q \in PickFurthestFrom(towers,
                                                     Remaining(avail, <<tower(p)>>))} :
                          p \in PickFurthestFrom(towers, avail)}
        rest(w) == Remaining(avail, w)
        power == obs.power_coverage < 80 /\ "PowerPlant" \notin types
                 /\ obs.treasury >= PowerPlantFloor
    IN  IF obs.treasury < SafetyFloor \/ avail = {} THEN {<<>>}
        ELSE UNION {IF power /\ rest(w) # {}
                    THEN {Append(w, PlaceUtility(p, "PowerPlant")) :
                            p \in PickFurthestFrom({}, rest(w))}
                    ELSE {w} : w \in ws}

-----------------------------------------------------------------------------
(* The session: run_session's loop around play_turn *)

NoObs == [treasury |-> 0, water_coverage |-> 0, power_coverage |-> 0]

\* A request line written by GameProcess.send: its cmd and, for act, the action.
Req(cmd) == [cmd |-> cmd, action |-> Blank]
ActReq(a) == [cmd |-> "act", action |-> a]
Cmds(w) == [i \in DOMAIN w |-> w[i].cmd]

\* LLMClient._call_api: range(8), and the delay slept after failed attempt k.
MaxAttempts == 8
MaxDelay == 60

\* The delay without its ceiling.
BackoffUncapped(k) == 2 ^ k

Backoff(k) == Min2(2 ^ k, MaxDelay)

\* No reply received and nothing parsed yet in this call.
NoReply == [form |-> "none", keys |-> {}, actions |-> <<>>, query |-> <<>>]
NoParsed == [keys |-> {}, actions |-> <<>>, query |-> <<>>]

NotCalled == [called |-> FALSE, acts |-> <<>>]
FreshLocals ==
    [utility_count |-> 0, zone_count |-> 0, service_type_counts |-> NoCounts,
     spent_estimate |-> 0]

Locals ==
    [utility_count |-> utility_count, zone_count |-> zone_count,
     service_type_counts |-> service_type_counts, spent_estimate |-> spent_estimate]

Init ==
    /\ turn = 1
    /\ pc = "step"
    /\ observation = NoObs
    /\ water_cells = {}
    /\ placed_positions = {}
    /\ last_tax_rates = NoRates
    /\ road_cells = {}
    /\ next_road_y = InitialRoadY
    /\ water_tower_positions = <<>>
    /\ prev_treasury = InitialTreasury
    /\ last_treasury_delta = 0
    /\ fallback = NotCalled
    /\ injected = <<>>
    /\ raw_actions = <<>>
    /\ idx = 1
    /\ verdicts = <<>>
    /\ actions = <<>>
    /\ utility_count = 0
    /\ zone_count = 0
    /\ service_type_counts = NoCounts
    /\ spent_estimate = 0
    /\ sent = <<>>
    /\ results = <<>>
    /\ recent_turns = <<>>
    /\ history_summary = <<>>
    /\ turn_log = <<>>
    /\ messages = <<>>
    /\ attempt = 0
    /\ slept = <<>>
    /\ response = NoReply
    /\ parsed = NoParsed
    /\ wire = <<>>
    /\ link = "up"
    /\ llm_errors = 0
    /\ turns_played = 0
    /\ session_log = <<>>

\* play_turn steps 1-4: step, observe, format_observation, turn-1 water seeding.
\* The backend's observation is drawn from Tr x Wc x Pc, the '~' cells of its
\* overview map from the subsets of Ov.
Observe(Tr, Wc, Pc, Ov) ==
    /\ pc = "step"
    /\ link = "up"
    /\ \E t \in Tr, w \in Wc, p \in Pc, ov \in SUBSET Ov :
        /\ (turn # 1 => ov = {})
        /\ observation' = [treasury |-> t, water_coverage |-> w, power_coverage |-> p]
        /\ last_treasury_delta' = t - prev_treasury
        /\ prev_treasury' = t
        /\ water_cells' = IF turn = 1 /\ ov # {} THEN BuildWaterSet(ov) ELSE water_cells
    /\ pc' = "llm"
    /\ wire' = wire \o <<Req("step"), Req("observe")>>
    /\ UNCHANGED <<turn, placed_positions, last_tax_rates, road_cells, next_road_y,
                   water_tower_positions, fallback, injected, raw_actions, idx,
                   verdicts, actions, utility_count, zone_count,
                   service_type_counts, spent_estimate, sent, results>>
    /\ UNCHANGED <<conv, call, link, stats>>

\* play_turn steps 6-8 up to the admission loop, for the parsed action list l:
\* fallback, injection, normalization, loop locals.
Prepare(l) ==
    /\ LET fb == IF l = <<>>
                 THEN GenerateFallbackActions(observation, road_cells,
                                              placed_positions, water_cells, next_road_y)
                 ELSE [acts |-> <<>>, next_y |-> next_road_y]
           raw_llm == IF l = <<>> THEN fb.acts ELSE l
       IN  \E inj \in InjectCriticalUtilities(observation, raw_llm, road_cells,
                                              placed_positions,
                                              Range(water_tower_positions)) :
             /\ fallback' = [called |-> l = <<>>, acts |-> fb.acts]
             /\ injected' = inj
             /\ next_road_y' = fb.next_y
             /\ raw_actions' = NormalizeAll(raw_llm \o inj)
             /\ pc' = IF raw_llm \o inj = <<>> THEN "end" ELSE "admit"
    /\ idx' = 1
    /\ verdicts' = <<>>
    /\ actions' = <<>>
    /\ utility_count' = 0
    /\ zone_count' = 0
    /\ service_type_counts' = NoCounts
    /\ spent_estimate' = 0
    /\ sent' = <<>>
    /\ results' = <<>>
    /\ attempt' = 0
    /\ slept' = <<>>
    /\ UNCHANGED reply
    /\ UNCHANGED <<turn, observation, water_cells, placed_positions, last_tax_rates,
                   road_cells, water_tower_positions, prev_treasury,
                   last_treasury_delta>>
    /\ UNCHANGED <<conv, wire, link, stats>>

\* play_turn steps 5-8 up to the admission loop: an attempt of the proposer call
\* succeeds and its response parses to an action list (drawn from Lists).
Propose(Lists) ==
    /\ pc = "llm"
    /\ attempt < MaxAttempts
    /\ \E l \in Lists : Prepare(l)

\* AdmitStep with the road cells of a candidate road line recorded as soon as it
\* has passed the bounds check, instead of after the backend's Success.
AdmitStepMarksRoad ==
    /\ pc = "admit"
    /\ LET a == raw_actions[idx]
           r == Consider(a, Locals, observation.treasury,
                         MaxZonesPerTurn(last_treasury_delta, observation.treasury),
                         water_cells, placed_positions, last_tax_rates)
           admitted == IF r.verdict = "admit" THEN Append(actions, a) ELSE actions
       IN  /\ verdicts' = Append(verdicts, r.verdict)
           /\ actions' = admitted
           /\ utility_count' = r.st.utility_count
           /\ zone_count' = r.st.zone_count
           /\ service_type_counts' = r.st.service_type_counts
           /\ spent_estimate' = r.st.spent_estimate
           /\ idx' = idx + 1
           /\ pc' = IF idx < Len(raw_actions) THEN "admit"
                    ELSE IF admitted = <<>> THEN "end" ELSE "act"
           /\ road_cells' = IF r.verdict # "bounds" /\ a.kind = "PlaceRoadLine"
                            THEN road_cells \cup LineCells(a.start, a.end)
                            ELSE road_cells
    /\ UNCHANGED <<turn, observation, water_cells, placed_positions, last_tax_rates,
                   next_road_y, water_tower_positions, prev_treasury,
                   last_treasury_delta, fallback, injected, raw_actions, sent, results>>
    /\ UNCHANGED <<conv, call, wire, link, stats>>

\* One iteration of the admission loop (lines 996-1054).
AdmitStep ==
    /\ pc = "admit"
    /\ LET a == raw_actions[idx]
           r == Consider(a, Locals, observation.treasury,
                         MaxZonesPerTurn(last_treasury_delta, observation.treasury),
                         water_cells, placed_positions, last_tax_rates)
           admitted == IF r.verdict = "admit" THEN Append(actions, a) ELSE actions
       IN  /\ verdicts' = Append(verdicts, r.verdict)
           /\ actions' = admitted
           /\ utility_count' = r.st.utility_count
           /\ zone_count' = r.st.zone_count
           /\ service_type_counts' = r.st.service_type_counts
           /\ spent_estimate' = r.st.spent_estimate
           /\ idx' = idx + 1
           /\ pc' = IF idx < Len(raw_actions) THEN "admit"
                    ELSE IF admitted = <<>> THEN "end" ELSE "act"
    /\ UNCHANGED <<turn, observation, water_cells, placed_positions, last_tax_rates,
                   road_cells, next_road_y, water_tower_positions, prev_treasury,
                   last_treasury_delta, fallback, injected, raw_actions, sent, results>>
    /\ UNCHANGED <<conv, call, wire, link, stats>>

\* Memory after the backend answered `res` to act(a) (lines 1059-1103).
\* `res` is "Success" or the reason code of {"Error": reason}.
\* The update of _placed_positions without the AlreadyExists branch.
PlacedAfterSuccessOnly(a, res, placed) ==
    IF a.pos # NoPt /\ res = "Success" /\ a.kind \in {"PlaceUtility", "PlaceService"}
    THEN placed \cup {a.pos} ELSE placed

PlacedAfter(a, res, placed) ==
    IF a.pos # NoPt
       /\ (res = "AlreadyExists"
           \/ (res = "Success" /\ a.kind \in {"PlaceUtility", "PlaceService"}))
    THEN placed \cup {a.pos} ELSE placed

TowersAfter(a, res, towers) ==
    IF res = "Success" /\ a.kind = "PlaceUtility" /\ a.pos # NoPt
       /\ a.utility_type = "WaterTower"
    THEN Append(towers, a.pos) ELSE towers

RoadAfter(a, res, road) ==
    IF res = "Success" /\ a.kind = "PlaceRoadLine" /\ a.start # NoPt /\ a.end # NoPt
    THEN road \cup LineCells(a.start, a.end) ELSE road

\* The frontier set from every successful road, also to a smaller value.
NextRoadYAfterUnguarded(a, res, y) ==
    IF res = "Success" /\ a.kind = "PlaceRoadLine" /\ a.start # NoPt /\ a.end # NoPt
    THEN Max2(a.start[2], a.end[2]) + 5 ELSE y

NextRoadYAfter(a, res, y) ==
    IF res = "Success" /\ a.kind = "PlaceRoadLine" /\ a.start # NoPt /\ a.end # NoPt
       /\ Max2(a.start[2], a.end[2]) + 5 > y
    THEN Max2(a.start[2], a.end[2]) + 5 ELSE y

TaxAfter(a, res, last_tax) ==
    IF res = "Success" /\ a.kind = "SetTaxRates" THEN RatesOf(a) ELSE last_tax

WaterAfter(a, res, water) ==
    IF res = "BlockedByWater" THEN RecordWaterFailure(a, water) ELSE water

\* The admitted actions taken from the end of the list.
NextAdmittedFromEnd(admitted, done) == admitted[Len(admitted) - Len(done)]

\* `for action in actions` (line 1058): the action of the iteration that follows
\* the results in `done`.
NextAdmitted(admitted, done) == admitted[Len(done) + 1]

\* One iteration of the execution loop (lines 1057-1110): the act request for the
\* next admitted action, the backend's answer (drawn from Res), the memory update.
ActStep(Res) ==
    /\ pc = "act"
    /\ link = "up"
    /\ LET a == NextAdmitted(actions, results)
       IN  \E res \in Res :
            /\ sent' = Append(sent, a)
            /\ wire' = Append(wire, ActReq(a))
            /\ results' = Append(results, res)
            /\ water_cells' = WaterAfter(a, res, water_cells)
            /\ placed_positions' = PlacedAfter(a, res, placed_positions)
            /\ water_tower_positions' = TowersAfter(a, res, water_tower_positions)
            /\ road_cells' = RoadAfter(a, res, road_cells)
            /\ next_road_y' = NextRoadYAfter(a, res, next_road_y)
            /\ last_tax_rates' = TaxAfter(a, res, last_tax_rates)
    /\ pc' = IF Len(results) + 1 < Len(actions) THEN "act" ELSE "end"
    /\ UNCHANGED <<turn, observation, prev_treasury, last_treasury_delta, fallback,
                   injected, raw_actions, idx, verdicts, actions, utility_count,
                   zone_count, service_type_counts, spent_estimate>>
    /\ UNCHANGED <<conv, call, link, stats>>

\* The early exit of line 1268 never taken.
DeeplyBankruptNever(obs) == FALSE

\* The early exit of run_session's loop (line 1268).
DeeplyBankrupt(obs) == obs.treasury < -BankruptcyFloor

\* The end of play_turn and the rest of run_session's loop body (lines 1146-1270):
\* the turn's locals die, the loop ends on the turn limit or on deep bankruptcy.
EndTurn(max_turns) ==
    /\ pc = "end"
    /\ IF DeeplyBankrupt(observation) \/ turn >= max_turns
       THEN pc' = "done" /\ turn' = turn
       ELSE pc' = "step" /\ turn' = turn + 1
    /\ observation' = NoObs
    /\ fallback' = NotCalled
    /\ injected' = <<>>
    /\ raw_actions' = <<>>
    /\ idx' = 1
    /\ verdicts' = <<>>
    /\ actions' = <<>>
    /\ utility_count' = 0
    /\ zone_count' = 0
    /\ service_type_counts' = NoCounts
    /\ spent_estimate' = 0
    /\ sent' = <<>>
    /\ results' = <<>>
    /\ wire' = <<>>
    /\ session_log' = Append(session_log, turn)
    /\ turns_played' = turns_played + 1
    /\ UNCHANGED <<water_cells, placed_positions, last_tax_rates, road_cells,
                   next_road_y, water_tower_positions, prev_treasury,
                   last_treasury_delta>>
    /\ UNCHANGED <<conv, call, link, llm_errors>>

\* The Action Governor's part of a session.  The conversation manager does not
\* feed back into admission; its calls are followed in Dialogue below, and the
\* Governor's steps leave it alone.
Session(Tr, Wc, Pc, Ov, Lists, Res, max_turns) ==
    \/ Observe(Tr, Wc, Pc, Ov)
    \/ Propose(Lists)
    \/ AdmitStep
    \/ ActStep(Res)
    \/ EndTurn(max_turns)

-----------------------------------------------------------------------------
(* ConversationManager.  A text is identified by what it is and the turn it was  *)
(* made in; history_summary is kept as the sequence of its blocks (each block is  *)
(* one "Turns a-b: ..." line appended with +=).                                   *)

WindowSize == 6
ContextTurns == 5
CompressEvery == 10

Msg(role, kind, t, body) == [role |-> role, kind |-> kind, turn |-> t, body |-> body]

ObsText(t) == [kind |-> "obs", turn |-> t]
ResponseText(t) == [kind |-> "resp", turn |-> t]

\* self.recent_turns[-5:]
LastTurns(recent, n) == SubSeq(recent, Max2(1, Len(recent) - n + 1), Len(recent))

RECURSIVE Exchanges(_)
Exchanges(recent) ==
    IF recent = <<>> THEN <<>>
    ELSE <<Msg("user", Head(recent)[1].kind, Head(recent)[1].turn, <<>>),
           Msg("assistant", Head(recent)[2].kind, Head(recent)[2].turn, <<>>)>>
         \o Exchanges(Tail(recent))

BuildMessages(summary, recent, current) ==
    <<Msg("system", "prompt", 0, <<>>)>>
    \o (IF summary # <<>> THEN <<Msg("system", "history", 0, summary)>> ELSE <<>>)
    \o Exchanges(LastTurns(recent, ContextTurns))
    \o <<Msg("user", current.kind, current.turn, <<>>)>>

\* recent_turns.append(...) with nothing evicted afterwards
KeepAll(recent) == recent

\* if len(self.recent_turns) > 6: self.recent_turns.pop(0)
Evict(recent) == IF Len(recent) > WindowSize THEN Tail(recent) ELSE recent

RECURSIVE CountResults(_, _)
CountResults(block, only_ok) ==
    IF block = <<>> THEN 0
    ELSE Cardinality({i \in DOMAIN Head(block).results :
                        ~only_ok \/ Head(block).results[i]})
         + CountResults(Tail(block), only_ok)

\* _compress_history: the block appended to history_summary.  turn_log[a-1 : b]
\* is clipped to the log's length; a metric of an empty block prints as "?",
\* here <<>>.
SummaryBlock(log, current_turn) ==
    LET block_start == Max2(1, current_turn - (CompressEvery - 1))
        block == SubSeq(log, block_start, Min2(current_turn, Len(log)))
        actions_taken == CountResults(block, FALSE)
        successes == CountResults(block, TRUE)
    IN  [first |-> block_start, last |-> current_turn,
         actions |-> actions_taken, ok |-> successes,
         failed |-> actions_taken - successes,
         treasury |-> IF block = <<>> THEN <<>> ELSE <<block[Len(block)].treasury>>,
         pop |-> IF block = <<>> THEN <<>> ELSE <<block[Len(block)].population>>]

\* _compress_history that replaces the summary instead of appending to it.
CompressHistoryReplacing(log, summary, current_turn) ==
    <<SummaryBlock(log, current_turn)>>

CompressHistory(log, summary, current_turn) ==
    Append(summary, SummaryBlock(log, current_turn))

governor == <<observation, water_cells, placed_positions, last_tax_rates,
              road_cells, next_road_y, water_tower_positions, prev_treasury,
              last_treasury_delta, fallback, injected, raw_actions, idx, verdicts,
              actions, utility_count, zone_count, service_type_counts,
              spent_estimate, sent, results>>

\* play_turn step 5: conv_mgr.build_messages(user_msg) for this turn's observation.
Ask ==
    /\ pc = "step"
    /\ messages' = BuildMessages(history_summary, recent_turns, ObsText(turn))
    /\ pc' = "llm"
    /\ UNCHANGED <<turn, recent_turns, history_summary, turn_log, governor>>
    /\ UNCHANGED <<call, wire, link, stats>>

\* play_turn step 10: conv_mgr.record_turn(turn, user_msg, response, results, ...),
\* then run_session goes to the next turn.  res holds one success flag per result.
RecordTurn(Rs, Tr, max_turns) ==
    /\ pc = "llm"
    /\ \E res \in Rs, t \in Tr :
         LET log == Append(turn_log, [turn |-> turn, obs_snippet |-> ObsText(turn),
                                      results |-> res, treasury |-> t,
                                      population |-> 0])
         IN  /\ recent_turns' =
                   Evict(Append(recent_turns, <<ObsText(turn), ResponseText(turn)>>))
             /\ turn_log' = log
             /\ history_summary' =
                   IF turn > 0 /\ turn % CompressEvery = 0
                   THEN CompressHistory(log, history_summary, turn)
                   ELSE history_summary
    /\ turn' = IF turn >= max_turns THEN turn ELSE turn + 1
    /\ pc' = IF turn >= max_turns THEN "done" ELSE "step"
    /\ UNCHANGED <<messages, governor>>
    /\ UNCHANGED <<call, wire, link, stats>>

\* llm.call raises inside play_turn: run_session catches it (lines 1186-1197) and
\* goes on with the next turn; record_turn is not reached.
LlmError(max_turns) ==
    /\ pc = "llm"
    /\ turn' = IF turn >= max_turns THEN turn ELSE turn + 1
    /\ pc' = IF turn >= max_turns THEN "done" ELSE "step"
    /\ UNCHANGED <<conv, governor>>
    /\ UNCHANGED <<call, wire, link, stats>>

-----------------------------------------------------------------------------
(* Input families: what the backend observes and answers, what the proposer sends *)

MaxLen == 2
MaxRun == 7
MaxTurns == 2
CapTurns == 1

\* Sequences over U of length at most n, and runs of one element of R up to m long.
SeqsUpTo(U, n) == UNION {[1 .. k -> U] : k \in 0 .. n}
RECURSIVE Rep(_, _)
Rep(a, k) == IF k = 0 THEN <<>> ELSE Append(Rep(a, k - 1), a)

Runs(R, m) == {Rep(a, k) : a \in R, k \in 1 .. m}

\* The overview cell whose 4x4 block is x, y in 8..11 (it holds (10,10)).
LakeCell == <<2, 2>>

MixedUniverse ==
    {RoadLine(<<5, 10>>, <<15, 10>>, "Local"),
     PlaceUtility(<<20, 20>>, "PowerPlant"),
     PlaceService(<<20, 20>>, "FireStation"),
     ZoneRect(<<250, 30>>, <<256, 31>>, "Residential"),
     ZoneRect(<<30, 30>>, <<34, 31>>, "Residential"),
     SetTaxRates(AllRates(10))}

MixedRuns ==
    {PlaceUtility(<<20, 20>>, "PowerPlant"),
     PlaceService(<<20, 20>>, "FireStation"),
     ZoneRect(<<30, 30>>, <<34, 31>>, "Residential")}

MixedLists == SeqsUpTo(MixedUniverse, MaxLen) \cup Runs(MixedRuns, MaxRun)

Next ==
    Session({700, 5000}, {90}, {90}, {LakeCell}, MixedLists,
            {"Success", "AlreadyExists"}, MaxTurns)

Spec == Init /\ [][Next]_vars

-----------------------------------------------------------------------------
(* Claims checked under Spec *)

Rejecting ==
    /\ Len(verdicts') = Len(verdicts) + 1
    /\ verdicts'[Len(verdicts')] # "admit"

\* C3: a step of the admission loop that rejects its candidate (for bounds, water,
\* redundancy, occupancy, a cap or the budget) leaves RoadCellSet, OccupiedSet,
\* TaxState and WaterSet exactly as they were before the candidate was considered.
C3_RejectionLeavesMemory ==
    [][Rejecting => /\ road_cells' = road_cells
                    /\ placed_positions' = placed_positions
                    /\ last_tax_rates' = last_tax_rates
                    /\ water_cells' = water_cells]_vars

\* The spec's scenario: (10,10) is water, RoadLine (5,10)-(15,10) has just been
\* rejected for the water collision, and RoadCellSet holds no cell.
C3_Witness ==
    /\ <<10, 10>> \in water_cells
    /\ verdicts # <<>>
    /\ verdicts[Len(verdicts)] = "water"
    /\ raw_actions[Len(verdicts)] = RoadLine(<<5, 10>>, <<15, 10>>, "Local")
    /\ road_cells = {}

\* C4: of two SetTaxRates candidates with the same rate map that follow one another
\* in a turn with no other SetTaxRates between them, the first is admitted and the
\* second is rejected as redundant.
C4_SecondSameTaxesRejected ==
    \A i \in DOMAIN verdicts : \A j \in DOMAIN verdicts :
        ( /\ i < j
          /\ raw_actions[i].kind = "SetTaxRates"
          /\ raw_actions[j].kind = "SetTaxRates"
          /\ RatesOf(raw_actions[i]) = RatesOf(raw_actions[j])
          /\ \A k \in (i + 1) .. (j - 1) : raw_actions[k].kind # "SetTaxRates"
          /\ RatesOf(raw_actions[i]) # last_tax_rates )
        => (verdicts[i] = "admit" /\ verdicts[j] = "same taxes")

Placement(a) == a.kind \in {"PlaceUtility", "PlaceService"}

\* C18: OccupiedSet only grows, and exactly by the position of an action whose act
\* was answered Success (for a PlaceUtility or PlaceService) or AlreadyExists (for any
\* action with a position); and while a turn's candidates are admitted (no act sent
\* yet), a PlaceUtility or PlaceService at a position of OccupiedSet is rejected and
\* is not in the list the act requests are taken from.
C18_OccupiedSetGrowsAndBlocks ==
    /\ [](results = <<>> =>
            /\ \A i \in DOMAIN verdicts :
                 (Placement(raw_actions[i]) /\ raw_actions[i].pos \in placed_positions)
                 => verdicts[i] # "admit"
            /\ \A i \in DOMAIN actions :
                 Placement(actions[i]) => actions[i].pos \notin placed_positions)
    /\ [][/\ placed_positions \subseteq placed_positions'
          /\ IF Len(results') = Len(results) + 1
             THEN LET a == actions[Len(results')]
                      res == results'[Len(results')]
                  IN  IF a.pos # NoPt /\ (res = "AlreadyExists"
                                           \/ (res = "Success" /\ Placement(a)))
                      THEN placed_positions' = placed_positions \cup {a.pos}
                      ELSE placed_positions' = placed_positions
             ELSE placed_positions' = placed_positions]_vars

\* In the second turn a placement at a position recorded (after AlreadyExists) in the
\* first turn has been rejected as occupied.
C18_Witness ==
    /\ turn = 2
    /\ results = <<>>
    /\ placed_positions # {}
    /\ \E i \in DOMAIN verdicts :
         /\ verdicts[i] = "occupied"
         /\ raw_actions[i].pos \in placed_positions

-----------------------------------------------------------------------------
(* SpecBounds: candidates at and beyond the edge of the grid *)

EdgeUniverse ==
    {RoadLine(<<250, 40>>, <<256, 40>>, "Local"),
     PlaceUtility(<<255, 255>>, "WaterTower"),
     PlaceService(<<256, 0>>, "FireStation"),
     ZoneRect(<<-1, 30>>, <<3, 31>>, "ResLow"),
     ZoneRect(<<230, 30>>, <<260, 31>>, "Industrial"),
     [Blank EXCEPT !.kind = "Demolish", !.pos = <<300, 300>>]}

EdgeLists == SeqsUpTo(EdgeUniverse, MaxLen)

NextBounds ==
    Session({5000}, {90}, {90}, {}, EdgeLists,
            {"Success", "BlockedByWater"}, MaxTurns)

SpecBounds == Init /\ [][NextBounds]_vars

\* The coordinates an action refers to, as the claims name them: the values of start,
\* end, pos, min and max, and the cells between the ends of an axis-aligned line.
AxisCells(s, e) ==
    IF s[1] # e[1] /\ s[2] # e[2] THEN {}
    ELSE {<<x, y>> : x \in Min2(s[1], e[1]) .. Max2(s[1], e[1]),
                     y \in Min2(s[2], e[2]) .. Max2(s[2], e[2])}

Referenced(a) ==
    {p \in {a.start, a.end, a.pos, a.min, a.max} : p # NoPt}
    \cup (IF a.start # NoPt /\ a.end # NoPt THEN AxisCells(a.start, a.end) ELSE {})

OffGrid(p) == p[1] < 0 \/ p[1] > 255 \/ p[2] < 0 \/ p[2] > 255

\* C1: a candidate of the admission loop, of any kind, that refers to a coordinate
\* with x or y outside 0..255 is rejected, and no act request is sent for an action
\* referring to such a coordinate.
C1_OutOfBoundsRejected ==
    /\ \A i \in DOMAIN verdicts :
         (\E p \in Referenced(raw_actions[i]) : OffGrid(p)) => verdicts[i] = "bounds"
    /\ \A i \in DOMAIN actions : \A p \in Referenced(actions[i]) : ~OffGrid(p)
    /\ \A i \in DOMAIN sent : \A p \in Referenced(sent[i]) : ~OffGrid(p)

\* A road line whose end is at x = 256 has been rejected for bounds while a utility
\* at the corner (255,255) has been admitted and sent.
C1_Witness ==
    /\ \E i \in DOMAIN verdicts :
         /\ raw_actions[i] = RoadLine(<<250, 40>>, <<256, 40>>, "Local")
         /\ verdicts[i] = "bounds"
    /\ \E i \in DOMAIN sent : sent[i] = PlaceUtility(<<255, 255>>, "WaterTower")

-----------------------------------------------------------------------------
(* SpecWater: candidates on and around the lake *)

LakeUniverse ==
    {RoadLine(<<5, 10>>, <<15, 10>>, "Local"),
     RoadLine(<<10, 5>>, <<10, 15>>, "avenue"),
     RoadLine(<<6, 6>>, <<13, 13>>, "Local"),
     RoadLine(<<40, 40>>, <<40, 43>>, "dirt"),
     PlaceUtility(<<10, 10>>, "PowerPlant"),
     BulldozeRect(<<9, 9>>, <<20, 20>>)}

LakeLists == SeqsUpTo(LakeUniverse, MaxLen)

NextWater ==
    Session({5000}, {90}, {90}, {LakeCell}, LakeLists,
            {"Success", "BlockedByWater"}, MaxTurns)

SpecWater == Init /\ [][NextWater]_vars

\* The grid points on the straight segment from s to e.
SegmentPoints(s, e) ==
    {p \in (Min2(s[1], e[1]) .. Max2(s[1], e[1])) \X (Min2(s[2], e[2]) .. Max2(s[2], e[2])) :
        (p[1] - s[1]) * (e[2] - s[2]) = (p[2] - s[2]) * (e[1] - s[1])}

OnOrAlong(a) ==
    {p \in {a.start, a.end, a.pos, a.min, a.max} : p # NoPt}
    \cup (IF a.kind = "PlaceRoadLine" /\ a.start # NoPt /\ a.end # NoPt
          THEN SegmentPoints(a.start, a.end) ELSE {})

\* C2: while the turn's candidates are being admitted (no act sent yet, so WaterSet
\* is the one of admission time), every candidate already considered that has a
\* referenced coordinate in WaterSet, the points of the line from a road's start to
\* its end included, was rejected, and no such action is in the admitted list
\* the act requests are taken from.
C2_WaterRejected ==
    results = <<>> =>
        /\ \A i \in DOMAIN verdicts :
             OnOrAlong(raw_actions[i]) \cap water_cells # {} => verdicts[i] # "admit"
        /\ \A i \in DOMAIN actions : OnOrAlong(actions[i]) \cap water_cells = {}

-----------------------------------------------------------------------------
(* SpecBlocked: a few actions the backend may answer with BlockedByWater, on a   *)
(* map with or without the lake                                                  *)

BlockedUniverse ==
    {RoadLine(<<40, 40>>, <<40, 43>>, "dirt"),
     RoadLine(<<6, 6>>, <<13, 13>>, "Local"),
     PlaceUtility(<<10, 10>>, "PowerPlant")}

BlockedLists == SeqsUpTo(BlockedUniverse, MaxLen) \ {<<>>}

NextBlocked ==
    Session({5000}, {90}, {90}, {LakeCell}, BlockedLists,
            {"Success", "BlockedByWater"}, MaxTurns)

SpecBlocked == Init /\ [][NextBlocked]_vars

Blocked(i) == i \in DOMAIN results /\ results[i] = "BlockedByWater"

\* C19: no step takes a coordinate out of WaterSet (neither the seeding from the
\* overview map in turn 1 nor a recorded water failure), and recording a blocked
\* action that was already recorded in the turn leaves WaterSet unchanged.
C19_WaterSetNeverShrinks ==
    [][/\ water_cells \subseteq water_cells'
       /\ (/\ Len(results') = Len(results) + 1
           /\ results'[Len(results')] = "BlockedByWater"
           /\ \E i \in DOMAIN results : Blocked(i) /\ sent[i] = actions[Len(results')])
          => water_cells' = water_cells]_vars

\* The same road was sent twice in a turn and blocked by water both times, on a map
\* whose lake was seeded in turn 1.
C19_Witness ==
    /\ <<10, 10>> \in water_cells
    /\ \E i \in DOMAIN results : \E j \in DOMAIN results :
         i < j /\ Blocked(i) /\ Blocked(j) /\ sent[i] = sent[j]

Sendable == {NormalizeAction(a) : a \in BlockedUniverse}

\* C20: when the backend answers an action with BlockedByWater, every coordinate the
\* action refers to and every cell within 2 of it on each axis is in WaterSet right
\* after; and from then on the action is not admitted in any later turn (so no act
\* request is sent for it again).
C20_BlockedActionStaysRejected ==
    /\ [][(Len(results') = Len(results) + 1 /\ results'[Len(results')] = "BlockedByWater")
          => \A c \in Referenced(actions[Len(results')]) :
               \A dx \in -2 .. 2 : \A dy \in -2 .. 2 :
                   <<c[1] + dx, c[2] + dy>> \in water_cells']_vars
    /\ \A a \in Sendable :
         []((\E i \in DOMAIN results : Blocked(i) /\ sent[i] = a)
            => [](results = <<>> => \A j \in DOMAIN actions : actions[j] # a))

\* In the second turn a road away from the seeded lake is rejected for water: it was
\* blocked by water in the first turn.
C20_Witness ==
    /\ turn = 2
    /\ \E i \in DOMAIN verdicts :
         /\ verdicts[i] = "water"
         /\ raw_actions[i].start = <<40, 40>>

-----------------------------------------------------------------------------
(* SpecBudget: paid candidates against small and non-positive treasuries; the   *)
(* proposer always answers with at least one action                             *)

PaidUniverse ==
    {RoadLine(<<40, 40>>, <<42, 40>>, "Local"),
     PlaceUtility(<<41, 40>>, "PowerPlant"),
     PlaceService(<<42, 40>>, "FireStation"),
     ZoneRect(<<40, 41>>, <<42, 42>>, "Commercial"),
     [Blank EXCEPT !.kind = "Demolish", !.pos = <<41, 41>>]}

PaidLists == SeqsUpTo(PaidUniverse, MaxLen) \ {<<>>}

NextBudget ==
    Session({-50, 0, 400, 550, 1300}, {60, 90}, {90}, {}, PaidLists,
            {"Success", "NotEnoughMoney"}, MaxTurns)

SpecBudget == Init /\ [][NextBudget]_vars

RECURSIVE SumCost(_)
SumCost(s) == IF s = <<>> THEN 0 ELSE ActionCost(Head(s).kind) + SumCost(Tail(s))

Kinds(s) == {s[i].kind : i \in DOMAIN s}

\* C5: in a turn observed with a treasury below the approximate cost of a utility
\* (600), no PlaceUtility is admitted or sent, whatever its source; and with a
\* treasury below 500 the injector has returned no action.
C5_NoUtilityBelowCost ==
    /\ observation.treasury < 600 =>
         "PlaceUtility" \notin Kinds(actions) \cup Kinds(sent)
    /\ observation.treasury < 500 => injected = <<>>

\* Treasury 400, water coverage low and a free road cell known: the injector
\* returned nothing, and a proposed PlaceUtility has been rejected for the budget.
C5_Witness ==
    /\ observation.treasury = 400
    /\ observation.water_coverage < 80
    /\ road_cells \ placed_positions # {}
    /\ injected = <<>>
    /\ \E i \in DOMAIN verdicts :
         raw_actions[i].kind = "PlaceUtility" /\ verdicts[i] = "budget"

\* C6: the approximate costs of the actions admitted so far in a turn sum to no
\* more than the turn's observed treasury; with a treasury of zero or below, only
\* actions of cost zero are admitted.
C6_SpendingWithinTreasury ==
    /\ observation.treasury >= 0 => SumCost(actions) <= observation.treasury
    /\ observation.treasury <= 0 => \A i \in DOMAIN actions : ActionCost(actions[i].kind) = 0

\* Something paid was admitted, and a later candidate no longer fitted the headroom.
C6_Witness ==
    /\ SumCost(actions) > 0
    /\ \E i \in DOMAIN verdicts : verdicts[i] = "budget" /\ i > 1 /\ verdicts[i - 1] = "admit"
    /\ injected # <<>>

\* Treasury -50: a free action was admitted, a paid one rejected.
C6_WitnessNegative ==
    /\ observation.treasury < 0
    /\ actions # <<>>
    /\ "budget" \in Range(verdicts)

-----------------------------------------------------------------------------
(* SpecCaps: long lists of one or two kinds against a large and a small treasury, *)
(* in sessions of CapTurns turns (the ceilings are per turn)                      *)

\* k copies of a followed by j copies of b, at most m actions in all.
TwoRuns(R, m) ==
    UNION {{Rep(a, k) \o Rep(b, j) : a \in R, b \in R, j \in 0 .. (m - k)} : k \in 1 .. m}

CapUniverse ==
    {PlaceUtility(<<60, 60>>, "PowerPlant"),
     PlaceUtility(<<60, 60>>, "WaterTower"),
     PlaceService(<<61, 60>>, "FireStation"),
     PlaceService(<<61, 60>>, "PoliceStation"),
     ZoneRect(<<62, 60>>, <<64, 62>>, "Residential")}

CapLists == TwoRuns(CapUniverse, MaxRun)

NextCaps ==
    Session({1300, 60000}, {90}, {90}, {}, CapLists,
            {"Success", "NotEnoughMoney"}, CapTurns)

SpecCaps == Init /\ [][NextCaps]_vars

CappedUtility(a) == a.kind = "PlaceUtility" /\ a.utility_type # "WaterTower"

ServiceKinds(s) == {s[i].service_type : i \in {j \in DOMAIN s : s[j].kind = "PlaceService"}}

\* C7: the actions admitted in a turn hold at most 4 PlaceUtility actions of a kind
\* other than WaterTower, at most 2 PlaceService actions of each service kind and
\* at most 6 ZoneRect actions; WaterTower placements are not counted.
C7_PerTurnCeilings ==
    /\ Cardinality({i \in DOMAIN actions : CappedUtility(actions[i])}) <= 4
    /\ \A k \in ServiceKinds(actions) :
         Cardinality({i \in DOMAIN actions :
                        actions[i].kind = "PlaceService" /\ actions[i].service_type = k}) <= 2
    /\ Cardinality({i \in DOMAIN actions : actions[i].kind = "ZoneRect"}) <= 6

\* Four power plants were admitted, a fifth was rejected for the utility cap, and a
\* water tower proposed after them was still admitted.
C7_Witness ==
    /\ Cardinality({i \in DOMAIN actions : CappedUtility(actions[i])}) = 4
    /\ \E i \in DOMAIN verdicts :
         /\ verdicts[i] = "utility cap"
         /\ \E j \in DOMAIN verdicts :
              /\ j > i
              /\ raw_actions[j].kind = "PlaceUtility"
              /\ raw_actions[j].utility_type = "WaterTower"
              /\ verdicts[j] = "admit"

AdmittedBefore(i) == {j \in 1 .. (i - 1) : verdicts[j] = "admit"}

\* C9: a candidate is rejected for the utility, service-kind or zone cap only when
\* that category's ceiling number of actions has been admitted earlier in the turn.
C9_CapRejectionOnlyAtCeiling ==
    \A i \in DOMAIN verdicts :
        /\ verdicts[i] = "utility cap" =>
             Cardinality({j \in AdmittedBefore(i) : CappedUtility(raw_actions[j])}) = 4
        /\ verdicts[i] = "service cap" =>
             Cardinality({j \in AdmittedBefore(i) :
                            /\ raw_actions[j].kind = "PlaceService"
                            /\ raw_actions[j].service_type = raw_actions[i].service_type}) = 2
        /\ verdicts[i] = "zone cap" =>
             Cardinality({j \in AdmittedBefore(i) : raw_actions[j].kind = "ZoneRect"})
                = MaxZonesPerTurn(last_treasury_delta, observation.treasury)

-----------------------------------------------------------------------------
(* SpecThrottle: runs of zone rectangles while the treasury falls at several rates *)

ZoneUniverse ==
    {ZoneRect(<<62, 60>>, <<64, 62>>, "Residential"),
     ZoneRect(<<70, 60>>, <<72, 62>>, "Industrial"),
     BulldozeRect(<<62, 60>>, <<64, 62>>)}

ZoneLists == Runs(ZoneUniverse, MaxRun) \cup SeqsUpTo(ZoneUniverse, MaxLen)

NextThrottle ==
    Session({46000, 47000, 50000, 52000, 60000}, {90}, {90}, {}, ZoneLists,
            {"Success", "NotEnoughMoney"}, MaxTurns)

SpecThrottle == Init /\ [][NextThrottle]_vars

ZonesAdmitted == Cardinality({i \in DOMAIN actions : actions[i].kind = "ZoneRect"})

\* C8: at most 2 ZoneRects are admitted in a turn whose treasury delta is below -3000
\* with the treasury below 50000, at most 3 in a turn whose delta is below -5000 with
\* the treasury at or above 50000, and in every other turn the ceiling is 6: up to 6
\* are admitted, and a ZoneRect is rejected for the zone cap only at the ceiling.
C8_ZoneCeilingFollowsTrend ==
    LET ceiling == IF last_treasury_delta < -3000 /\ observation.treasury < 50000 THEN 2
                   ELSE IF last_treasury_delta < -5000 /\ observation.treasury >= 50000 THEN 3
                   ELSE 6
    IN  /\ ZonesAdmitted <= ceiling
        /\ "zone cap" \in Range(verdicts) => ZonesAdmitted = ceiling

\* The treasury fell by more than 5000 but is still at or above 50000: three zone
\* rectangles were admitted and a fourth was rejected for the zone cap.
C8_Witness ==
    /\ last_treasury_delta < -5000
    /\ observation.treasury >= 50000
    /\ ZonesAdmitted = 3
    /\ "zone cap" \in Range(verdicts)

\* The treasury fell by more than 3000 to below 50000: two admitted, then the cap.
C8_WitnessThrottled ==
    /\ last_treasury_delta < -3000
    /\ observation.treasury < 50000
    /\ ZonesAdmitted = 2
    /\ "zone cap" \in Range(verdicts)

\* The treasury fell by exactly 3000: six admitted, then the cap.
C8_WitnessDefault ==
    /\ last_treasury_delta = -3000
    /\ ZonesAdmitted = 6
    /\ "zone cap" \in Range(verdicts)

-----------------------------------------------------------------------------
(* SpecIdle: turns where the proposer answers nothing, on a map with water on the *)
(* first fallback row                                                             *)

\* The overview cell whose 4x4 block is x in 100..103, y in 92..95.
PondCell == <<25, 23>>

\* The overview cell whose 4x4 block is x in 100..103, y in 96..99: the row below
\* the first fallback road.
ShoreCell == <<25, 24>>

IdleUniverse ==
    {RoadLine(<<40, 40>>, <<40, 43>>, "Local"),
     PlaceUtility(<<40, 40>>, "WaterTower")}

IdleLists == SeqsUpTo(IdleUniverse, MaxLen)

NextIdle ==
    Session({400, 5000}, {60, 90}, {90}, {PondCell, ShoreCell}, IdleLists,
            {"Success", "BlockedByWater"}, MaxTurns)

SpecIdle == Init /\ [][NextIdle]_vars

\* C10: in a turn where the proposer contributed no action and the observed treasury
\* is at or above the safety floor (500), _generate_fallback_actions has returned at
\* least one action.
C10_FallbackYieldsAction ==
    (fallback.called /\ observation.treasury >= 500) => fallback.acts # <<>>

\* C11: no action returned by _generate_fallback_actions (a utility placement, the
\* road segment or either zone rectangle beside it) refers to a coordinate that is
\* in WaterSet when it is generated (no act has been sent yet in the turn, so
\* WaterSet is still the one the generator saw).
C11_FallbackAvoidsWater ==
    (fallback.called /\ results = <<>>) =>
        \A i \in DOMAIN fallback.acts : Referenced(fallback.acts[i]) \cap water_cells = {}

-----------------------------------------------------------------------------
(* SpecDialogue: the calls run_session makes on the conversation manager over   *)
(* ConvTurns turns, with at most MaxOdd turns that are not the plain one (the    *)
(* LLM call failed, or the turn had no result or a failed one)                   *)

ConvTurns == 21
MaxOdd == 1

PlainResults == <<TRUE>>

OddTurns ==
    (IF pc = "done" THEN turn - Len(turn_log) ELSE turn - 1 - Len(turn_log))
    + Cardinality({i \in DOMAIN turn_log : turn_log[i].results # PlainResults})

NextDialogue ==
    \/ Ask
    \/ RecordTurn(IF OddTurns < MaxOdd THEN {PlainResults, <<TRUE, FALSE>>, <<>>}
                  ELSE {PlainResults},
                  {5000}, ConvTurns)
    \/ (OddTurns < MaxOdd /\ LlmError(ConvTurns))

SpecDialogue == Init /\ [][NextDialogue]_vars

HistoryMessages == {i \in DOMAIN messages : messages[i].kind = "history"}

\* C12: the window holds at most 6 pairs, and they are the most recently recorded
\* ones in the order they were recorded; build_messages returns at most 13 messages:
\* the system prompt first, at most one summary message next, then the exchanges,
\* oldest first, of at most the 5 most recent pairs of the window, and the current
\* observation last.
C12_WindowAndContextBounded ==
    LET n == Len(recent_turns)
        h == Cardinality(HistoryMessages)
        shown == Min2(5, n)
    IN  /\ n = Min2(6, Len(turn_log))
        /\ \A i \in 1 .. n :
             recent_turns[i] = <<ObsText(turn_log[Len(turn_log) - n + i].turn),
                                 ResponseText(turn_log[Len(turn_log) - n + i].turn)>>
        /\ pc = "llm" =>
             /\ Len(messages) <= 13
             /\ messages[1] = Msg("system", "prompt", 0, <<>>)
             /\ h <= 1
             /\ HistoryMessages \subseteq {2}
             /\ Len(messages) = 1 + h + 2 * shown + 1
             /\ \A k \in 1 .. shown :
                  /\ messages[1 + h + 2 * k - 1] =
                       Msg("user", "obs", recent_turns[n - shown + k][1].turn, <<>>)
                  /\ messages[1 + h + 2 * k] =
                       Msg("assistant", "resp", recent_turns[n - shown + k][2].turn, <<>>)
             /\ \A k \in 1 .. (shown - 1) :
                  recent_turns[n - shown + k][1].turn < recent_turns[n - shown + k + 1][1].turn
             /\ messages[Len(messages)] = Msg("user", "obs", turn, <<>>)

\* More than six turns were recorded, so the oldest pair was evicted, and the built
\* message list has all 13 messages.
C12_Witness ==
    /\ pc = "llm"
    /\ Len(turn_log) > 6
    /\ Len(messages) = 13
    /\ recent_turns[1][1].turn > 1

\* The size of a context: one unit per text, and one unit per block of the summary
\* for the summary message.
RECURSIVE ContextSize(_)
ContextSize(ms) ==
    IF ms = <<>> THEN 0
    ELSE (IF Head(ms).kind = "history" THEN Len(Head(ms).body) ELSE 1)
         + ContextSize(Tail(ms))

\* C13: the size of the context build_messages returns is bounded by a constant that
\* does not depend on the number of turns played: it never exceeds the size of 13
\* texts, which is what a full context with a one-block summary takes.
C13_ContextSizeBounded == ContextSize(messages) <= 13

Recorded == Len(turn_log') = Len(turn_log) + 1

\* C14: the summary is append-only: no step shortens it or changes a block it has; a
\* recorded turn whose number is a positive multiple of 10 adds exactly one block,
\* and every other step leaves the summary as it is.
C14_SummaryAppendOnly ==
    [][/\ Len(history_summary') >= Len(history_summary)
       /\ SubSeq(history_summary', 1, Len(history_summary)) = history_summary
       /\ (Recorded /\ turn > 0 /\ turn % 10 = 0)
            => Len(history_summary') = Len(history_summary) + 1
       /\ ~(Recorded /\ turn > 0 /\ turn % 10 = 0)
            => history_summary' = history_summary]_vars

\* Turn 20 has been recorded and the summary holds two blocks.
C14_Witness ==
    /\ Len(history_summary) = 2
    /\ turn_log # <<>>
    /\ turn_log[Len(turn_log)].turn = 20

-----------------------------------------------------------------------------
(* SpecInject: a short road, low coverage, and a proposer that places the scarce *)
(* utilities itself                                                              *)

InjectUniverse ==
    {RoadLine(<<5, 5>>, <<5, 5>>, "Local"),
     RoadLine(<<5, 5>>, <<5, 7>>, "Local"),
     PlaceUtility(<<5, 5>>, "WaterTower"),
     PlaceUtility(<<5, 6>>, "PowerPlant")}

InjectLists == SeqsUpTo(InjectUniverse, MaxLen) \ {<<>>}

NextInject ==
    Session({5000}, {40, 60, 90}, {60, 90}, {}, InjectLists,
            {"Success", "AlreadyExists"}, MaxTurns)

SpecInject == Init /\ [][NextInject]_vars

\* C15: every position in the list _inject_critical_utilities returned is a road cell
\* that is not occupied (no act has been sent yet in the turn, so both sets are the
\* ones the injector saw), the positions of one call are pairwise distinct, and with
\* no free road cell the injector returns nothing.
C15_InjectsOnFreeRoadCells ==
    results = <<>> =>
        /\ \A i \in DOMAIN injected : injected[i].pos \in road_cells \ placed_positions
        /\ \A i \in DOMAIN injected : \A j \in DOMAIN injected :
             i # j => injected[i].pos # injected[j].pos
        /\ road_cells \ placed_positions = {} => injected = <<>>

\* The spec's scenario: the only road cell is (5,5), nothing is occupied, and the
\* injector placed a utility at (5,5).
C15_Witness ==
    /\ road_cells = {<<5, 5>>}
    /\ placed_positions = {}
    /\ results = <<>>
    /\ injected # <<>>
    /\ injected[1].pos = <<5, 5>>

\* The scenario's second call: (5,5) is occupied and the injector, asked again with
\* low coverage, has returned nothing.
C15_WitnessOccupied ==
    /\ road_cells = {<<5, 5>>}
    /\ placed_positions = {<<5, 5>>}
    /\ pc = "admit"
    /\ observation.water_coverage < 80
    /\ injected = <<>>

\* The list handed to the injector: the candidates before the injected ones.
Handed == SubSeq(raw_actions, 1, Len(raw_actions) - Len(injected))

\* C16: when the list handed to the injector holds a PlaceUtility of a scarce kind
\* (WaterTower or PowerPlant), the injector returns no action of that kind.
C16_NoInjectionOfSuppliedKind ==
    \A k \in {"WaterTower", "PowerPlant"} :
        (\E i \in DOMAIN Handed :
            Handed[i].kind = "PlaceUtility" /\ Handed[i].utility_type = k)
        => \A j \in DOMAIN injected : injected[j].utility_type # k

-----------------------------------------------------------------------------
(* SpecSpread: a five-cell road with a water tower at its end, then low water    *)
(* coverage                                                                      *)

SpreadUniverse ==
    {RoadLine(<<5, 5>>, <<5, 9>>, "Local"),
     PlaceUtility(<<5, 5>>, "WaterTower")}

SpreadLists == SeqsUpTo(SpreadUniverse, MaxLen) \ {<<>>}

NextSpread ==
    Session({5000}, {40, 90}, {90}, {}, SpreadLists, {"Success", "AlreadyExists"},
            MaxTurns)

SpecSpread == Init /\ [][NextSpread]_vars

InjectedTowers == {i \in DOMAIN injected : injected[i].utility_type = "WaterTower"}

\* C17, for WaterTower: each injected tower's position has, among the free road cells
\* not taken by an earlier pick of the call, the largest minimum Manhattan distance
\* to the existing towers together with the towers injected earlier in the call.
C17_PickMaximizesSpread ==
    results = <<>> =>
        \A i \in InjectedTowers :
            LET earlier == {injected[j].pos : j \in {k \in InjectedTowers : k < i}}
                refs == Range(water_tower_positions) \cup earlier
                cands == (road_cells \ placed_positions) \ earlier
            IN  refs # {} =>
                  \A c \in cands : MinDist(c, refs) <= MinDist(injected[i].pos, refs)

\* What Memory alone decides in the admission loop: the tests of lines 1000-1021
\* that read _water_cells, _last_tax_rates and _placed_positions.
RejectedByMemory(a, water, placed, last_tax) ==
    \/ ActionHitsWater(a, water)
    \/ SameTaxes(a, last_tax)
    \/ Occupied(a, placed)

\* C21: right after the backend has answered an action (of any kind) with
\* AlreadyExists, Memory is such that the admission loop rejects that action, so
\* the action proposed again in a later turn is not admitted and not sent.
C21_AlreadyExistsNotRetried ==
    [][(Len(results') = Len(results) + 1 /\ results'[Len(results')] = "AlreadyExists")
       => RejectedByMemory(actions[Len(results')], water_cells', placed_positions',
                           last_tax_rates')]_vars

-----------------------------------------------------------------------------
(* The rest of the run: the proposer call's retries and failure, the query      *)
(* round, a backend whose pipes break, and the end of run_session               *)

Queried == \E i \in DOMAIN wire : wire[i].cmd = "query"

rest == <<turn, pc, governor, conv, wire, link, stats>>

\* One failed attempt of _call_api (lines 288-301): the except branch, with the
\* sleep unless it was the last attempt.
Retry ==
    /\ pc = "llm"
    /\ attempt < MaxAttempts
    /\ attempt' = attempt + 1
    /\ slept' = IF attempt + 1 < MaxAttempts
                THEN Append(slept, Backoff(attempt + 1))
                ELSE slept
    /\ UNCHANGED reply
    /\ UNCHANGED rest

\* play_turn step 7 (lines 932-944): an attempt succeeds, the response parses to
\* a query, the layers are fetched and the follow-up call begins.
Query ==
    /\ pc = "llm"
    /\ attempt < MaxAttempts
    /\ ~Queried
    /\ link = "up"
    /\ wire' = Append(wire, Req("query"))
    /\ attempt' = 0
    /\ slept' = <<>>
    /\ UNCHANGED reply
    /\ UNCHANGED <<turn, pc, governor, conv, link, stats>>

\* The follow-up call raises after its last attempt: the except of lines 946-948
\* sets parsed to an empty action list and play_turn goes on.
FollowupFails ==
    /\ pc = "llm"
    /\ attempt = MaxAttempts
    /\ Queried
    /\ Prepare(<<>>)

\* The first call raises after its last attempt (line 302): play_turn is left at
\* line 926 and run_session's handler (lines 1188-1197) counts the error and
\* observes again.  Nothing was stepped or acted since the turn's observe, so the
\* backend shows the same city; if this send fails, obs is {}.  oks: whether the
\* send can succeed, fail, or both.
LlmFails(Oks) ==
    /\ pc = "llm"
    /\ attempt = MaxAttempts
    /\ ~Queried
    /\ llm_errors' = llm_errors + 1
    /\ wire' = Append(wire, Req("observe"))
    /\ \E ok \in Oks :
         /\ link' = IF ok THEN link ELSE "down"
         /\ observation' = IF ok THEN observation ELSE NoObs
    /\ pc' = "end"
    /\ attempt' = 0
    /\ slept' = <<>>
    /\ UNCHANGED reply
    /\ UNCHANGED <<turn, water_cells, placed_positions, last_tax_rates, road_cells,
                   next_road_y, water_tower_positions, prev_treasury,
                   last_treasury_delta, fallback, injected, raw_actions, idx,
                   verdicts, actions, utility_count, zone_count,
                   service_type_counts, spent_estimate, sent, results>>
    /\ UNCHANGED <<conv, turns_played, session_log>>

\* game.step or game.observe raises in play_turn (lines 903-906; send, lines
\* 215-226): the same handler of run_session catches it, and its own observe fails
\* as well, so obs is {}.
BackendFails ==
    /\ pc = "step"
    /\ \E at \in IF link = "up" THEN {"step", "observe"} ELSE {"step"} :
         wire' = wire \o (IF at = "step" THEN <<Req("step")>>
                          ELSE <<Req("step"), Req("observe")>>)
                      \o <<Req("observe")>>
    /\ link' = "down"
    /\ llm_errors' = llm_errors + 1
    /\ observation' = NoObs
    /\ pc' = "end"
    /\ UNCHANGED <<turn, water_cells, placed_positions, last_tax_rates, road_cells,
                   next_road_y, water_tower_positions, prev_treasury,
                   last_treasury_delta, fallback, injected, raw_actions, idx,
                   verdicts, actions, utility_count, zone_count,
                   service_type_counts, spent_estimate, sent, results>>
    /\ UNCHANGED <<conv, call, turns_played, session_log>>

\* game.act raises in the execution loop: the except of lines 1115-1123 appends a
\* failed result and the loop goes on with the next admitted action.
ActFails ==
    /\ pc = "act"
    /\ LET a == NextAdmitted(actions, results)
       IN  /\ sent' = Append(sent, a)
           /\ wire' = Append(wire, ActReq(a))
           /\ results' = Append(results, "TransportError")
    /\ link' = "down"
    /\ pc' = IF Len(results) + 1 < Len(actions) THEN "act" ELSE "end"
    /\ UNCHANGED <<turn, observation, water_cells, placed_positions, last_tax_rates,
                   road_cells, next_road_y, water_tower_positions, prev_treasury,
                   last_treasury_delta, fallback, injected, raw_actions, idx,
                   verdicts, actions, utility_count, zone_count,
                   service_type_counts, spent_estimate>>
    /\ UNCHANGED <<conv, call, stats>>

\* save_replay asked again after a failed send.
SaveReplayRetried(Oks) ==
    /\ pc = "done"
    /\ \E ok \in IF link = "up" THEN Oks ELSE {FALSE} :
         /\ link' = IF ok THEN link ELSE "down"
         /\ wire' = IF ok THEN Append(wire, Req("save_replay"))
                    ELSE wire \o <<Req("save_replay"), Req("save_replay")>>
    /\ pc' = "saved"
    /\ UNCHANGED <<turn, governor, conv, call, stats>>

\* After the loop (lines 1272-1278): save_replay, whose failure is logged.
SaveReplay(Oks) ==
    /\ pc = "done"
    /\ wire' = Append(wire, Req("save_replay"))
    /\ \E ok \in IF link = "up" THEN Oks ELSE {FALSE} :
         link' = IF ok THEN link ELSE "down"
    /\ pc' = "saved"
    /\ UNCHANGED <<turn, governor, conv, call, stats>>

\* Leaving the with block: GameProcess.quit (lines 246-252) sends quit and ignores
\* a failed send; the summary of lines 1280-1300 follows.
Quit ==
    /\ pc = "saved"
    /\ wire' = Append(wire, Req("quit"))
    /\ pc' = "quit"
    /\ UNCHANGED <<turn, governor, conv, call, link, stats>>

\* run_session with a proposer that may fail and may ask for layers.
Run(Tr, Wc, Pc, Ov, Lists, Res, Oks, max_turns) ==
    \/ Session(Tr, Wc, Pc, Ov, Lists, Res, max_turns)
    \/ Retry
    \/ Query
    \/ FollowupFails
    \/ LlmFails(Oks)
    \/ SaveReplay(Oks)
    \/ Quit

-----------------------------------------------------------------------------
(* SpecRun: whole sessions against a backend that always answers, with a        *)
(* proposer whose calls may fail; a rich city and a deeply bankrupt one         *)

RunUniverse ==
    {RoadLine(<<5, 5>>, <<5, 7>>, "Local"),
     PlaceUtility(<<5, 5>>, "PowerPlant")}

RunLists == SeqsUpTo(RunUniverse, MaxLen)

NextRun ==
    Run({5000, -200000}, {90}, {90}, {}, RunLists, {"Success", "AlreadyExists"},
        {TRUE}, MaxTurns)

SpecRun == Init /\ [][NextRun]_vars

\* run_session is one sequential program: whenever a step of it is possible it is
\* taken (each proposer request has a timeout, the backend answers or closes).
FairRun == SpecRun /\ WF_vars(NextRun)

ExpectedDelays == <<2, 4, 8, 16, 32, 60, 60>>

\* C22: a proposer call makes at most 8 attempts; after the k-th failed attempt,
\* k = 1..7, it has slept 2, 4, 8, 16, 32, 60, 60 seconds (never more than 60, and
\* nothing after the 8th); the attempt counter moves only by one failed attempt or
\* back to zero when the call is over, which a successful attempt does at once;
\* the failure is raised only after 8 failed attempts, and then the call is over;
\* and every call ends.
C22_CallApiBounded ==
    /\ [](attempt <= 8)
    /\ [](slept = SubSeq(ExpectedDelays, 1, Min2(attempt, 7)))
    /\ [][attempt' # attempt
          => \/ attempt' = attempt + 1 /\ attempt < 8 /\ pc = "llm" /\ pc' = "llm"
             \/ attempt' = 0]_vars
    /\ [][llm_errors' # llm_errors => attempt = 8 /\ Len(slept) = 7]_vars
    /\ [][(pc = "llm" /\ attempt = 8) => attempt' = 0]_vars
    /\ [](pc = "llm" => <>(attempt = 0))

\* A call has failed eight times and slept all seven delays.
C22_Witness ==
    /\ pc = "llm"
    /\ attempt = 8
    /\ slept = <<2, 4, 8, 16, 32, 60, 60>>

\* A proposer call has used up its attempts.
Exhausted == pc = "llm" /\ attempt = MaxAttempts

\* C23: when a proposer call fails after its last attempt, the error counter goes
\* up by exactly one and the turn goes straight to its end with nothing admitted
\* and no act request sent; the end of every turn appends the turn to the session
\* log, counts it in turns_played and either starts the next turn or, on the turn
\* limit or deep bankruptcy, ends the loop.
C23_ProposerFailureCountedAndSkipped ==
    /\ [][Exhausted => /\ llm_errors' = llm_errors + 1
                       /\ pc' = "end"
                       /\ actions' = <<>> /\ sent' = <<>>
                       /\ \A i \in DOMAIN wire' : wire'[i].cmd # "act"]_vars
    /\ [][pc = "end" => /\ session_log' = Append(session_log, turn)
                        /\ turns_played' = turns_played + 1
                        /\ \/ pc' = "step" /\ turn' = turn + 1
                           \/ pc' = "done" /\ (turn = MaxTurns
                                               \/ observation.treasury < -100000)]_vars

\* C24: when a proposer call fails after its last attempt, the fallback generator
\* runs for the turn on the empty action list, and what it returned (with the
\* injected utilities) is what the admission loop is given, whose admitted actions
\* the execution loop then sends.
C24_ProposerFailureFeedsFallback ==
    [][Exhausted => /\ fallback'.called
                    /\ raw_actions' = NormalizeAll(fallback'.acts \o injected')
                    /\ (raw_actions' # <<>> => pc' = "admit")]_vars

-----------------------------------------------------------------------------
(* SpecFaults: the same sessions against a backend whose pipes may break at any  *)
(* request                                                                       *)

NextFaults ==
    \/ Run({5000, -200000}, {90}, {90}, {}, RunLists, {"Success", "AlreadyExists"},
           BOOLEAN, MaxTurns)
    \/ BackendFails
    \/ ActFails

SpecFaults == Init /\ [][NextFaults]_vars

\* C25: once a send to the backend has failed, no step, observe or act request is
\* written any more and no further turn is started: the only requests that may
\* follow are those of the end of the session.
C25_TransportFailureIsFatal ==
    [][link = "down"
       => /\ turn' = turn
          /\ \A i \in DOMAIN wire' :
               i > Len(wire) => wire'[i].cmd \in {"save_replay", "quit"}]_vars

\* The loop of run_session is over.
LoopOver == pc \in {"done", "saved", "quit"}

\* C26: every session reaches its end (the quit after the loop); it never plays more
\* than max_turns turns; the turn whose observed treasury is below -100000 is the
\* last one; and once the loop is over no turn is started and no step request is
\* written.
C26_SessionTerminates ==
    /\ <>(pc = "quit")
    /\ [](turn <= MaxTurns /\ turns_played <= MaxTurns)
    /\ [][(pc = "end" /\ observation.treasury < -100000) => pc' = "done"]_vars
    /\ [][LoopOver => /\ LoopOver'
                      /\ turn' = turn
                      /\ turns_played' = turns_played
                      /\ \A i \in DOMAIN wire' : wire'[i].cmd # "step"]_vars

\* A session ended by bankruptcy in its first turn, with a turn still to play.
C26_Witness ==
    /\ pc = "quit"
    /\ turns_played = 1
    /\ turns_played < MaxTurns
    /\ prev_treasury < -100000

\* A session that played all its turns.
C26_WitnessLimit ==
    /\ pc = "quit"
    /\ turns_played = MaxTurns
    /\ prev_treasury > 0

\* The same sequential program against the backend that may fail.
FairFaults == SpecFaults /\ WF_vars(NextFaults)

\* C27: however the loop ended (turn limit or bankruptcy, error turns or not, the
\* pipes up or down), the session goes on to quit; save_replay is written only once
\* the loop is over, exactly once, and quit comes right after it, also when the
\* save_replay send failed.
C27_ReplaySavedOnceBeforeQuit ==
    /\ [](pc = "done" => <>(pc = "quit"))
    /\ [](pc \in {"step", "llm", "admit", "act", "end"}
          => \A i \in DOMAIN wire : wire[i].cmd \notin {"save_replay", "quit"})
    /\ [](pc = "done" => wire = <<>>)
    /\ [](pc = "saved" => Cmds(wire) = <<"save_replay">>)
    /\ [](pc = "quit" => Cmds(wire) = <<"save_replay", "quit">>)

\* A session ended by bankruptcy with no error turn and no act sent, whose
\* save_replay send failed, has sent quit.
C27_Witness ==
    /\ pc = "quit"
    /\ link = "down"
    /\ llm_errors = 0
    /\ prev_treasury < -100000
    /\ turns_played = 1

-----------------------------------------------------------------------------
(* SpecForeign: a proposer that also answers with an action key the backend's    *)
(* protocol does not have                                                        *)

ForeignUniverse ==
    {[Blank EXCEPT !.kind = "UpgradeRoad", !.pos = <<5, 5>>],
     RoadLine(<<5, 5>>, <<5, 7>>, "Local"),
     PlaceService(<<6, 6>>, "FireStation")}

ForeignLists == SeqsUpTo(ForeignUniverse, MaxLen) \ {<<>>}

NextForeign ==
    Session({300, 5000}, {90}, {90}, {}, ForeignLists, {"Success", "UnknownAction"},
            MaxTurns)

SpecForeign == Init /\ [][NextForeign]_vars

KnownKinds ==
    {"PlaceRoadLine", "ZoneRect", "PlaceUtility", "PlaceService", "BulldozeRect",
     "SetTaxRates"}

\* C28: every action the admission loop admits, and so every action sent to the
\* backend, is of one of the six kinds PlaceRoadLine, ZoneRect, PlaceUtility,
\* PlaceService, BulldozeRect, SetTaxRates.
C28_UnknownKindRejected ==
    /\ \A i \in DOMAIN actions : actions[i].kind \in KnownKinds
    /\ \A i \in DOMAIN sent : sent[i].kind \in KnownKinds

\* The act requests of the actions admitted so far in the turn's execution loop.
ActsSent == [i \in DOMAIN results |-> ActReq(actions[i])]

\* C29: at every point of a turn the requests written since it began are step,
\* observe, at most one query, then the act requests of the admitted actions, one
\* per result and in admission order; so no act precedes the turn's observe and
\* nothing but an admitted action is sent.  A turn left by a failed first proposer
\* call has no act: there the handler's observe follows.
C29_RequestOrderWithinTurn ==
    pc \in {"llm", "admit", "act", "end"} =>
        \/ wire = <<Req("step"), Req("observe")>> \o ActsSent
        \/ wire = <<Req("step"), Req("observe"), Req("query")>> \o ActsSent
        \/ /\ wire = <<Req("step"), Req("observe"), Req("observe")>>
           /\ pc = "end"
           /\ actions = <<>>

\* A turn with a query in which two different admitted actions have been sent.
C29_Witness ==
    /\ Len(wire) = 5
    /\ wire[3].cmd = "query"
    /\ wire[4].action.kind = "PlaceUtility"
    /\ wire[5].action.kind = "PlaceRoadLine"
    /\ actions = <<wire[4].action, wire[5].action>>

\* The step is the backend's Success for an admitted road line.
RoadSucceeded ==
    /\ Len(results') = Len(results) + 1
    /\ results'[Len(results')] = "Success"
    /\ actions[Len(results')].kind = "PlaceRoadLine"

\* C30: when the backend answers an admitted road line with Success, RoadCellSet
\* holds both of its endpoints right after and, when the line is axis-aligned,
\* every cell between them; and no other step changes RoadCellSet.
C30_RoadCellsFromSuccessfulRoads ==
    /\ [][RoadSucceeded
          => LET a == actions[Len(results')]
             IN  /\ a.start \in road_cells'
                 /\ a.end \in road_cells'
                 /\ AxisCells(a.start, a.end) \subseteq road_cells']_vars
    /\ [][road_cells' # road_cells => RoadSucceeded]_vars

-----------------------------------------------------------------------------
(* normalize_action applied to its own result (lines 727-785) *)

NormPoints == {<<0, 0>>, <<30, 10>>, <<5, 2>>}

\* No fractional component, or one component of one coordinate key at n + 1/2.
NormHalves(keys) == {{}} \cup {{<<k, i>>} : k \in keys, i \in 1..2}

WithHalf(a, h) == [a EXCEPT !.half = h]

\* Actions of the six kinds as a proposer may write them: rectangles in either
\* orientation and wider or deeper than the cap, alias, canonical and unknown
\* enum strings, rates below, at and above the floor with any of the four keys
\* left out, services named as utilities, fractional coordinates.
NormInputs ==
    {WithHalf(RoadLine(s, e, rt), h) :
        s \in NormPoints, e \in NormPoints,
        rt \in {"Local", "AVENUE", "Main", "highway", "dirt", NoStr},
        h \in NormHalves({"start", "end"})}
    \cup {WithHalf(ZoneRect(mn, mx, zt), h) :
        mn \in NormPoints, mx \in NormPoints,
        zt \in {"ResLow", "Residential", "ResidentialLow", "OfficeHigh",
                "MixedUse", "Swamp"},
        h \in NormHalves({"min", "max"})}
    \cup {WithHalf(BulldozeRect(mn, mx), h) :
        mn \in NormPoints, mx \in NormPoints, h \in NormHalves({"min", "max"})}
    \cup {WithHalf(PlaceUtility(p, ut), h) :
        p \in NormPoints,
        ut \in {"PowerPlant", "WaterTower", "Landfill", "Library", "Geyser"},
        h \in NormHalves({"pos"})}
    \cup {WithHalf(PlaceService(p, st), h) :
        p \in NormPoints, st \in {"FireStation", "Landfill"},
        h \in NormHalves({"pos"})}
    \cup {SetTaxRates(r) :
        r \in UNION {[S -> {3, TAX_FLOOR, 12}] : S \in SUBSET TaxKeys}}

\* The proposer's list, one action long, as it stands before line 965.
InitNormalize ==
    /\ turn = 1
    /\ pc = "normalize"
    /\ observation = NoObs
    /\ water_cells = {}
    /\ placed_positions = {}
    /\ last_tax_rates = NoRates
    /\ road_cells = {}
    /\ next_road_y = InitialRoadY
    /\ water_tower_positions = <<>>
    /\ prev_treasury = InitialTreasury
    /\ last_treasury_delta = 0
    /\ fallback = NotCalled
    /\ injected = <<>>
    /\ raw_actions \in {<<a>> : a \in NormInputs}
    /\ idx = 1
    /\ verdicts = <<>>
    /\ actions = <<>>
    /\ utility_count = 0
    /\ zone_count = 0
    /\ service_type_counts = NoCounts
    /\ spent_estimate = 0
    /\ sent = <<>>
    /\ results = <<>>
    /\ recent_turns = <<>>
    /\ history_summary = <<>>
    /\ turn_log = <<>>
    /\ messages = <<>>
    /\ attempt = 0
    /\ slept = <<>>
    /\ response = NoReply
    /\ parsed = NoParsed
    /\ wire = <<>>
    /\ link = "up"
    /\ llm_errors = 0
    /\ turns_played = 0
    /\ session_log = <<>>

\* raw_actions = [normalize_action(a) for a in raw_actions] (line 965); the
\* result is kept in actions, next to the list it was computed from.
NormalizeOnce ==
    /\ pc = "normalize"
    /\ actions' = NormalizeAll(raw_actions)
    /\ pc' = "again"
    /\ UNCHANGED <<turn, observation, memory, prev_treasury, last_treasury_delta,
                   fallback, injected, raw_actions, idx, verdicts, utility_count,
                   zone_count, service_type_counts, spent_estimate, sent, results>>
    /\ UNCHANGED <<conv, call, wire, link, stats>>

\* normalize_action applied to each normalized action; the result is kept in sent.
NormalizeAgain ==
    /\ pc = "again"
    /\ sent' = NormalizeAll(actions)
    /\ pc' = "twice"
    /\ UNCHANGED <<turn, observation, memory, prev_treasury, last_treasury_delta,
                   fallback, injected, raw_actions, idx, verdicts, actions,
                   utility_count, zone_count, service_type_counts, spent_estimate,
                   results>>
    /\ UNCHANGED <<conv, call, wire, link, stats>>

NextNormalize == NormalizeOnce \/ NormalizeAgain

SpecNormalize == InitNormalize /\ [][NextNormalize]_vars

\* C31: normalize_action is idempotent: for every action of the six kinds,
\* normalizing the normalized action gives the normalized action again.
C31_NormalizeIdempotent == pc = "twice" => sent = actions

\* A zone rectangle given reversed and wider than the cap, with an alias zone
\* type, has been normalized twice.
C31_Witness ==
    /\ pc = "twice"
    /\ raw_actions[1].kind = "ZoneRect"
    /\ raw_actions[1].min[1] - raw_actions[1].max[1] > 20
    /\ raw_actions[1].zone_type = "ResLow"
    /\ actions[1].min[1] - actions[1].max[1] = 20
    /\ actions[1].zone_type = "ResidentialLow"

-----------------------------------------------------------------------------
(* The tax floor on what reaches the backend (lines 724, 765-772, 964-965) *)

MixedRates ==
    [k \in TaxKeys |-> CASE k = "residential" -> TAX_FLOOR
                         [] k = "commercial" -> 3
                         [] k = "industrial" -> 12
                         [] OTHER -> 20]

\* Proposed rates: all below the floor, all above it, a mix of below, at and
\* above, and two proposals that leave keys out.
TaxUniverse ==
    {SetTaxRates(AllRates(3)), SetTaxRates(AllRates(11)), SetTaxRates(MixedRates),
     SetTaxRates([k \in {"office"} |-> 5]),
     SetTaxRates([k \in {"residential", "commercial"} |->
                     IF k = "residential" THEN 2 ELSE 15])}

TaxLists == SeqsUpTo(TaxUniverse, MaxLen) \ {<<>>}

NextTax == Session({5000}, {90}, {90}, {}, TaxLists, {"Success"}, MaxTurns)

SpecTax == Init /\ [][NextTax]_vars

\* The rates r are the proposal's rates p with every rate below the floor raised
\* to exactly the floor and every other rate, and the set of keys, unchanged.
FlooredFrom(r, p) ==
    /\ DOMAIN r = DOMAIN p
    /\ \A k \in DOMAIN p : r[k] = IF p[k] < TAX_FLOOR THEN TAX_FLOOR ELSE p[k]

\* C32: every SetTaxRates action sent to the backend has each rate that is
\* present at or above the floor of 8%, and is a proposed action with the rates
\* below the floor raised to exactly the floor and the other rates unchanged.
C32_SentRatesAtOrAboveFloor ==
    \A i \in DOMAIN wire :
        (wire[i].cmd = "act" /\ wire[i].action.kind = "SetTaxRates") =>
            /\ \A k \in DOMAIN wire[i].action.rates :
                   wire[i].action.rates[k] >= TAX_FLOOR
            /\ \E p \in TaxUniverse : FlooredFrom(wire[i].action.rates, p.rates)

\* The mixed proposal has been sent: 3% became 8%, and 8%, 12% and 20% stayed;
\* so has the proposal that names two of the four rates.
C32_Witness ==
    /\ \E i \in DOMAIN wire :
          /\ wire[i].cmd = "act"
          /\ wire[i].action.rates = [MixedRates EXCEPT !["commercial"] = TAX_FLOOR]
    /\ \E i \in DOMAIN wire :
          /\ wire[i].cmd = "act"
          /\ DOMAIN wire[i].action.rates = {"residential", "commercial"}
          /\ wire[i].action.rates["residential"] = TAX_FLOOR
          /\ wire[i].action.rates["commercial"] = 15

-----------------------------------------------------------------------------
(* The fallback frontier _next_road_y (lines 873-881, 1098-1101) *)

\* A proposed road beyond the frontier and one well before it.
FrontierUniverse ==
    {RoadLine(<<100, 96>>, <<100, 99>>, "Local"),
     RoadLine(<<50, 50>>, <<50, 52>>, "Local")}

FrontierLists == {<<>>} \cup {<<a>> : a \in FrontierUniverse}

NextFrontier ==
    Session({5000}, {90}, {90}, {}, FrontierLists, {"Success", "AlreadyExists"},
            MaxTurns + 1)

SpecFrontier == Init /\ [][NextFrontier]_vars

\* The y coordinates of the roads in a result of _generate_fallback_actions.
FallbackRoadYs(fb) ==
    {fb.acts[i].start[2] : i \in {j \in DOMAIN fb.acts : fb.acts[j].kind = "PlaceRoadLine"}}

\* C33: the fallback roads of a session never overlap.  The frontier never
\* decreases, under the fallback advance and under the update after a successful
\* road; a fallback road is generated at the frontier, and the frontier is then
\* strictly beyond it: so each generated fallback road lies at a strictly larger
\* y than every fallback road generated before it.
C33_FallbackRoadsAdvance ==
    [][/\ next_road_y' >= next_road_y
       /\ \A y \in FallbackRoadYs(fallback') : y < next_road_y'
       /\ (pc = "llm" /\ pc' # "llm") =>
              \A y \in FallbackRoadYs(fallback') :
                  /\ y >= next_road_y
                  /\ \A e \in FallbackRoadYs(fallback) : y > e]_vars

\* A third fallback road has been generated, after one fallback road that failed
\* at the backend (advance by 3) and one that succeeded (update to y + 5).
C33_Witness ==
    /\ turn = 3
    /\ fallback.called
    /\ FallbackRoadYs(fallback) = {InitialRoadY + 3 + 5}

\* C34: the fallback frontier advances only after a road placement has succeeded
\* at the backend: a step that changes it is the step that receives Success for
\* a PlaceRoadLine, so a fallback road that was generated and then rejected or
\* failed leaves it unchanged.
C34_FrontierMovesOnlyOnSuccess ==
    [][next_road_y' # next_road_y =>
          /\ Len(results') = Len(results) + 1
          /\ results'[Len(results')] = "Success"
          /\ sent'[Len(sent')].kind = "PlaceRoadLine"]_vars

-----------------------------------------------------------------------------
(* The water set at the edge of the grid (lines 320-330, 422-430) *)

\* C37: every member of the water set is a valid grid coordinate: after seeding
\* and after any number of _record_water_failure calls, each (x, y) in it has
\* 0 <= x <= 255 and 0 <= y <= 255.
C37_WaterSetOnGrid ==
    \A c \in water_cells : /\ 0 <= c[1] /\ c[1] <= GridSize - 1
                           /\ 0 <= c[2] /\ c[2] <= GridSize - 1

-----------------------------------------------------------------------------
(* Placements admitted in one turn (lines 950-962, 1014-1021, 1075-1085) *)

Placements(s) == {i \in DOMAIN s : s[i].kind \in {"PlaceUtility", "PlaceService"}}

\* C38: no two PlaceUtility/PlaceService actions admitted in the same turn,
\* whether they come from the proposer, the fallback generator or the injector,
\* target the same position.
C38_AdmittedPlacementsDistinct ==
    \A i \in Placements(actions) : \A j \in Placements(actions) :
        i # j => actions[i].pos # actions[j].pos

-----------------------------------------------------------------------------
(* Rectangles over known water (lines 383-411, 1000-1002) *)

\* Two rectangles whose corners are on land while the lake (x, y in 8..11) lies
\* inside them, and one with a corner in the lake.
RectUniverse ==
    {ZoneRect(<<5, 9>>, <<15, 10>>, "ResidentialLow"),
     BulldozeRect(<<7, 7>>, <<12, 12>>),
     ZoneRect(<<9, 9>>, <<15, 10>>, "Industrial")}

RectLists == SeqsUpTo(RectUniverse, MaxLen) \ {<<>>}

NextRect == Session({5000}, {90}, {90}, {LakeCell}, RectLists, {"Success"}, MaxTurns)

SpecRect == Init /\ [][NextRect]_vars

\* Every cell of the rectangle spanned by min and max.
RectCells(a) ==
    (Min2(a.min[1], a.max[1]) .. Max2(a.min[1], a.max[1]))
        \X (Min2(a.min[2], a.max[2]) .. Max2(a.min[2], a.max[2]))

\* C39: no admitted ZoneRect or BulldozeRect covers a cell of the water set:
\* when the admission loop appends such an action, every cell inside the
\* rectangle spanned by min and max, not only its two corners, is outside the
\* water set.
C39_AdmittedRectClearOfWater ==
    [][(pc = "admit" /\ Len(actions') = Len(actions) + 1
        /\ actions'[Len(actions')].kind \in {"ZoneRect", "BulldozeRect"}) =>
           RectCells(actions'[Len(actions')]) \cap water_cells = {}]_vars

-----------------------------------------------------------------------------
(* The turn log and the summary blocks (lines 152-189) *)

\* The records of turn_log whose turn number lies in first..last.
RecordsOf(log, first, last) ==
    LET InBlock(e) == first <= e.turn /\ e.turn <= last
    IN  SelectSeq(log, InBlock)

\* C35: when record_turn compresses a block of turns into the summary, the raw
\* per-turn records of that block are discarded, so the number of raw records
\* retained stays bounded (by the length of one block) however long the session.
C35_CompressedRecordsDiscarded ==
    /\ \A i \in DOMAIN history_summary :
           RecordsOf(turn_log, history_summary[i].first, history_summary[i].last) = <<>>
    /\ Len(turn_log) <= CompressEvery

\* C40: each summary block, labelled with the turns first..last, aggregates
\* exactly the recorded results of the turns numbered first..last, and every
\* recorded turn up to the last summarized one is counted in exactly one block,
\* also when earlier turns failed with a proposer error and were never recorded.
C40_BlocksAggregateTheirTurns ==
    /\ \A i \in DOMAIN history_summary :
           LET b == history_summary[i]
               recs == RecordsOf(turn_log, b.first, b.last)
           IN  /\ b.actions = CountResults(recs, FALSE)
               /\ b.ok = CountResults(recs, TRUE)
    /\ \A j \in DOMAIN turn_log :
           (\E i \in DOMAIN history_summary : turn_log[j].turn <= history_summary[i].last)
               => Cardinality({i \in DOMAIN history_summary :
                                  /\ history_summary[i].first <= turn_log[j].turn
                                  /\ turn_log[j].turn <= history_summary[i].last}) = 1

-----------------------------------------------------------------------------
(* parse_response and the query round of play_turn (lines 635-706, 925-951) *)

\* A reply text, by what parse_response can find in it:
\*   "object"   the text, fences stripped, is one JSON object with the keys `keys`;
\*   "array"    it is one JSON array;
\*   "prose"    words around one JSON object (found by the patterns of lines
\*              655-661 or between the outermost braces, lines 664-675);
\*   "loose"    no object or array that parses, but action objects of the six
\*              kinds in the text (lines 678-688);
\*   "garbage"  nothing that parses.
\* actions and query are the values under these keys (the array itself, and the
\* action objects found, for "array" and "loose").
ReplyActions == {<<>>, <<RoadLine(<<5, 5>>, <<5, 7>>, "Local")>>}
ReplyLayers == {<<"power">>}

Replies ==
    {[form |-> f, keys |-> K,
      actions |-> IF "actions" \in K THEN a ELSE <<>>,
      query |-> IF "query" \in K THEN q ELSE <<>>] :
        f \in {"object", "prose"}, K \in SUBSET {"actions", "query", "note"},
        a \in ReplyActions, q \in ReplyLayers}
    \cup {[form |-> f, keys |-> {}, actions |-> a, query |-> <<>>] :
        f \in {"array", "loose"}, a \in ReplyActions}
    \cup {[form |-> "garbage", keys |-> {}, actions |-> <<>>, query |-> <<>>]}

OnlyActions(a) == [keys |-> {"actions"}, actions |-> a, query |-> <<>>]

\* parse_response: a JSON object is returned as it is, with all its keys; a list
\* becomes {"actions": list}; what cannot be parsed becomes {"actions": []}.
ParseResponse(r) ==
    CASE r.form \in {"object", "prose"} ->
             [keys |-> r.keys, actions |-> r.actions, query |-> r.query]
      [] r.form = "array" -> OnlyActions(r.actions)
      [] r.form = "loose" /\ r.actions # <<>> -> OnlyActions(r.actions)
      [] OTHER -> OnlyActions(<<>>)

\* Lines 926-932: the first reply arrives and is parsed.
FirstReply ==
    /\ pc = "llm"
    /\ \E r \in Replies :
         /\ response' = r
         /\ parsed' = ParseResponse(r)
         /\ pc' = IF "query" \in ParseResponse(r).keys THEN "query" ELSE "parsed"
    /\ UNCHANGED <<turn, governor, conv, attempt, slept, wire, link, stats>>

\* Lines 934-945: the layers are fetched and the follow-up reply is parsed; it
\* is not looked at for a query again.
Followup ==
    /\ pc = "query"
    /\ wire' = Append(wire, Req("query"))
    /\ \E r \in Replies :
         /\ response' = r
         /\ parsed' = ParseResponse(r)
    /\ pc' = "parsed"
    /\ UNCHANGED <<turn, governor, conv, attempt, slept, link, stats>>

\* Lines 946-948: the query or the follow-up call raises.
FollowupRaises ==
    /\ pc = "query"
    /\ wire' = Append(wire, Req("query"))
    /\ parsed' = OnlyActions(<<>>)
    /\ pc' = "parsed"
    /\ UNCHANGED <<turn, governor, conv, attempt, slept, response, link, stats>>

\* Line 951: raw_llm_actions = parsed.get("actions", []).
TakeActions ==
    /\ pc = "parsed"
    /\ raw_actions' = IF "actions" \in parsed.keys THEN parsed.actions ELSE <<>>
    /\ pc' = "taken"
    /\ UNCHANGED <<turn, observation, memory, prev_treasury, last_treasury_delta,
                   fallback, injected, idx, verdicts, actions, utility_count,
                   zone_count, service_type_counts, spent_estimate, sent, results>>
    /\ UNCHANGED <<conv, call, wire, link, stats>>

NextParse ==
    \/ Observe({5000}, {90}, {90}, {})
    \/ FirstReply
    \/ Followup
    \/ FollowupRaises
    \/ TakeActions

SpecParse == Init /\ [][NextParse]_vars

\* C36: parse_response returns either an action list or a layer query, never
\* both: its result never carries both an actions key and a query key; and
\* play_turn performs at most one query follow-up per turn, a second query
\* reply being treated as an empty action list.
C36_ActionsOrQueryNeverBoth ==
    /\ ~({"actions", "query"} \subseteq parsed.keys)
    /\ Cardinality({i \in DOMAIN wire : wire[i].cmd = "query"}) <= 1
    /\ (pc = "taken" /\ Queried /\ "actions" \notin parsed.keys) => raw_actions = <<>>

=============================================================================
